---- MODULE Spec2Model ----
(***************************************************************************)
(* Model of the tagged-call multiplexer of the Mikrotik API client:        *)
(* MikrotikAPI::do_call (src/api/mod.rs), the reader task event_loop       *)
(* (src/api/listener.rs) and the three call sinks OneShotCall,             *)
(* ArrayListCall and StreamingCall (src/api/call/).                        *)
(*                                                                         *)
(* Sentences read from the socket are abstracted to frames                 *)
(* [kind, tag, seq]: kind is the reply word (with "bad" standing for a     *)
(* `!re` whose attributes do not deserialize into the sink's type), tag    *)
(* the number of the `.tag=` word and seq the position of the sentence     *)
(* among those the router sent for that tag, which serves as its payload   *)
(* (two sentences of one tag never carry the same payload).                *)
(***************************************************************************)
EXTENDS Integers, Sequences, FiniteSets

\* Number of calls issued on the connection.
MaxCalls == 2
\* Tags are drawn from 1..MaxTag (1..65534 in the program, a u16 range).
MaxTag == 2
\* Number of sentences the reader takes from the socket.
MaxFrames == 3

Calls == 1..MaxCalls

\* Uniform::from(1..u16::MAX), scaled to the model's tag space.
TagRange == 1..MaxTag

\* The tags a `.tag=` word of the model can carry.
AllTags == 0..MaxTag

CallKinds == {"oneshot", "array", "stream"}

\* The holder of a mutex: no task, the reader task, or the task of call c,
\* which is written c.
Nobody == 0

ReaderTask == -1

Range(seq) == {seq[i] : i \in 1..Len(seq)}

TaggedKinds == {"re", "trap", "done", "bad"}

\* Option<T>: None, Some(v).
None == <<>>

Some(v) == <<v>>

\* Response<T>: Done, Reply(T), Trap{message}.
Done == [k |-> "Done", v |-> 0]

Reply(v) == [k |-> "Reply", v |-> v]

Trap(v) == [k |-> "Trap", v |-> v]

\* Response::Fatal, which has no payload.
Fatal == [k |-> "Fatal", v |-> 0]

\* Outcomes of a poll that are not an item.
Pending == [k |-> "Pending", v |-> 0]

ReadyNone == [k |-> "None", v |-> 0]

VARIABLES
    tag_map,    \* SharedTagMap: tag -> call whose sink is boxed under it
    calls,      \* per call: position in do_call, sink variant, allocated tag,
                \* API method and arguments, command, attributes, out-parameter
    sinks,      \* per call: the state shared by the boxed sink and its clone
    wire,       \* the command sentences written to the socket
    reader,     \* event_loop: position, sink awaiting done(), cause of exit,
                \* the Err try_read_sentence last returned
    arrived,    \* history: per tag, how many tagged sentences were read
    pushed,     \* history: per call, the frames handed to push_reply
    doneLog,    \* history: per call, the outcomes of done()
    missed,     \* history: the tags the reader looked up and did not find
    consumer,   \* per call: output of the future / items of the stream
    arg,        \* argument of the function under check (pure-function runs);
                \* the sentence event_loop is processing (task-level runs)
    ret,        \* its return value
    locks,      \* holder of the tag-map mutex and of each sink mutex
    output,     \* the bytes handed to the socket's write half, each marked
                \* with its call and its position in the call's sentence
    buffer,     \* event_loop: the read buffer (BytesMut)
    socket      \* the bytes the router sent that no read has fetched yet

vars == <<tag_map, calls, sinks, wire, reader, arrived, pushed, doneLog, missed, consumer,
          arg, ret, locks, output, buffer, socket>>

----------------------------------------------------------------------------
\* Sinks

\* InnerCall::new(None), InnerCall::new(Some(Vec::new())), StreamingCall::new()
\* `handles` counts the clones of the call that share this state: the one
\* boxed into the tag table and the one do_call returns.
NewSink(kind) ==
    [inner |-> IF kind = "array" THEN Some(<<>>) ELSE None,
     done  |-> None,
     queue |-> <<>>,
     cell  |-> FALSE,
     handles |-> 2]

ReceiverOfConsumer(s) == s.handles >= 2

\* The UnboundedReceiver is a field of InnerStreamingCall, next to the
\* sender: it lives as long as any clone of the call does.
ReceiverAlive(s) == s.handles >= 1

\* deserialize_sentence, as far as the sinks depend on it.
deserialize_sentence(f) ==
    CASE f.kind = "re"   -> [ok |-> TRUE, val |-> Reply(f.seq)]
      [] f.kind = "trap" -> [ok |-> TRUE, val |-> Trap(f.seq)]
      [] f.kind = "done" -> [ok |-> TRUE, val |-> Done]
      [] OTHER           -> [ok |-> FALSE, val |-> Done]

OneShotStoreLast(inner, value) == Some(value)

\* OneShotCall::push_reply: the first value is kept.
OneShotStore(inner, value) == IF inner = None THEN Some(value) ELSE inner

\* ArrayListCall::push_reply: append while the vector has not been taken.
ArrayStore(inner, value) ==
    IF inner # None THEN Some(Append(inner[1], value)) ELSE inner

\* AsyncCall::push_reply of the three variants.
push_reply(kind, s, f) ==
    LET r == deserialize_sentence(f) IN
    IF ~r.ok THEN [sink |-> s, res |-> "BadSentence"]
    ELSE CASE kind = "oneshot" ->
                [sink |-> [s EXCEPT !.inner = OneShotStore(s.inner, r.val)], res |-> "Ok"]
           [] kind = "array" ->
                [sink |-> [s EXCEPT !.inner = ArrayStore(s.inner, r.val)], res |-> "Ok"]
           [] OTHER ->
                IF ReceiverAlive(s)
                THEN [sink |-> [s EXCEPT !.queue = Append(s.queue, r.val)], res |-> "Ok"]
                ELSE [sink |-> s, res |-> "SendError"]

\* InnerCall::done: take inner, set the OnceCell.
InnerCallDone(s) ==
    IF s.inner # None
    THEN IF s.done = None
         THEN [sink |-> [s EXCEPT !.inner = None, !.done = s.inner],
               res |-> "Ok", set |-> TRUE]
         ELSE [sink |-> [s EXCEPT !.inner = None],
               res |-> "DoneAlreadyHappened", set |-> FALSE]
    ELSE [sink |-> s, res |-> "DoneWithoutReply", set |-> FALSE]

\* StreamingCall::done: InnerStreamingCall::done, then the fall-through Err.
StreamingDone(s) ==
    IF s.cell
    THEN [sink |-> s, res |-> "DoneAlreadyHappened", set |-> FALSE]
    ELSE [sink |-> [s EXCEPT !.cell = TRUE], res |-> "BadLock", set |-> TRUE]

\* AsyncCall::done of the three variants.
done(kind, s) == IF kind = "stream" THEN StreamingDone(s) ELSE InnerCallDone(s)

GetDoneKeep(s) == [sink |-> s, value |-> s.done]

\* InnerCall::get_done: OnceCell::take.
get_done(s) == [sink |-> [s EXCEPT !.done = None], value |-> s.done]

\* Future for OneShotCall.
OneShotPoll(s) ==
    LET g == get_done(s) IN
    IF g.value # None THEN [sink |-> g.sink, out |-> g.value]
    ELSE [sink |-> s, out |-> None]

ArrayNoPop(vec) == vec

\* Vec::pop as used by ArrayListCall::poll: drop the last element, if any.
ArrayPop(vec) == IF vec = <<>> THEN vec ELSE SubSeq(vec, 1, Len(vec) - 1)

\* Future for ArrayListCall.
ArrayPoll(s) ==
    LET g == get_done(s) IN
    IF g.value # None THEN [sink |-> g.sink, out |-> Some(ArrayPop(g.value[1]))]
    ELSE [sink |-> s, out |-> None]

\* UnboundedReceiver::poll_recv; the sender lives in the same struct, so an
\* empty queue is Pending, never closed.
poll_recv(q) ==
    IF q = <<>> THEN [queue |-> q, out |-> Pending]
    ELSE [queue |-> Tail(q), out |-> Head(q)]

\* Stream for StreamingCall: poll_next.
poll_next(s) ==
    LET first == poll_recv(s.queue) IN
    IF first.out = Done
    THEN [sink |-> [s EXCEPT !.queue = first.queue], out |-> ReadyNone]
    ELSE LET second == poll_recv(first.queue) IN
         [sink |-> [s EXCEPT !.queue = second.queue], out |-> second.out]

RECURSIVE ScanReplies(_)
\* The scan of FromIterator: the Reply payloads up to the first other variant.
ScanReplies(vec) ==
    IF vec = <<>> \/ vec[1].k # "Reply" THEN <<>>
    ELSE <<vec[1].v>> \o ScanReplies(Tail(vec))

\* FromIterator<Response<A>> for Response<V>.
from_iter(vec) ==
    LET n == Len(ScanReplies(vec)) IN
    IF n < Len(vec) /\ vec[n + 1].k = "Trap"
    THEN [k |-> "Trap", v |-> vec[n + 1].v, items |-> <<>>]
    ELSE [k |-> "Reply", v |-> 0, items |-> ScanReplies(vec)]

\* From<Response<T>> for Result<T, Error>: Reply is Ok, Trap is
\* Err(Error::Remote(message)), the other variants hit unreachable!().
IntoResult(response) ==
    CASE response.k = "Reply" -> [k |-> "Ok", v |-> response]
      [] response.k = "Trap"  -> [k |-> "Remote", v |-> response.v]
      [] OTHER                -> [k |-> "unreachable", v |-> 0]

----------------------------------------------------------------------------
\* Facade

\* next_tag: the first sampled tag that is not a key of the map.
NextTagAny(map) == TagRange

NextTagChoices(map) == TagRange \ DOMAIN map

TagMapNoInsert(map, tag, c) == map

\* HashMap::insert
TagMapInsert(map, tag, c) ==
    [t \in DOMAIN map \cup {tag} |-> IF t = tag THEN c ELSE map[t]]

LookupAny(map, id) ==
    IF DOMAIN map # {} THEN Some(map[CHOOSE t \in DOMAIN map : TRUE]) ELSE None

\* HashMap::get_mut
Lookup(map, id) == IF id \in DOMAIN map THEN Some(map[id]) ELSE None

----------------------------------------------------------------------------
\* Commands.  A word is the sequence of its characters; a sentence is the
\* sequence of its words, the zero-length word that closes it included.

Digits == <<"0", "1", "2", "3", "4", "5", "6", "7", "8", "9">>

RECURSIVE ToString(_)
\* u16::to_string: the decimal digits, most significant first.
ToString(n) ==
    IF n < 10 THEN <<Digits[n + 1]>>
    ELSE ToString(n \div 10) \o <<Digits[(n % 10) + 1]>>

\* str::starts_with for a set of characters.
StartsWith(word, chars) == word # <<>> /\ word[1] \in chars

AttributeWordNoQuery(key, value) ==
    IF StartsWith(key, {"?", ".", "="})
    THEN key \o <<"=">> \o value
    ELSE <<"=">> \o key \o <<"=">> \o value

\* send_command: the word pushed for one (key, value) attribute.
AttributeWord(key, value) ==
    IF StartsWith(key, {"?"})
    THEN IF value = <<>> THEN key ELSE key \o <<"=">> \o value
    ELSE IF StartsWith(key, {".", "="})
         THEN key \o <<"=">> \o value
         ELSE <<"=">> \o key \o <<"=">> \o value

\* send_command: the command word, one word per attribute, and the closing
\* zero-length word that encode_sentence appends.
send_command(command, attributes) ==
    <<command>>
        \o [i \in 1..Len(attributes) |-> AttributeWord(attributes[i][1], attributes[i][2])]
        \o << <<>> >>

TagKey == <<".", "t", "a", "g">>

DoCallAttributesLast(attributes, tag) ==
    Append(attributes, <<TagKey, ToString(tag)>>)

\* do_call: attributes.insert(0, (".tag", &tag_str)).
DoCallAttributes(attributes, tag) ==
    << <<TagKey, ToString(tag)>> >> \o attributes

\* The `.tag=<N>` word of a command.
TagWord(tag) == AttributeWord(TagKey, ToString(tag))

\* The calls of the typed API: the method and its arguments, the sink
\* variant, the command and the attributes handed to do_call, and whether
\* a `tag` out-parameter is passed.
LoginCommand == <<"/", "l", "o", "g", "i", "n">>

NameKey == <<"n", "a", "m", "e">>

PasswordKey == <<"p", "a", "s", "s", "w", "o", "r", "d">>

authenticate(login, password) ==
    [method |-> "authenticate", args |-> <<login, password>>, kind |-> "oneshot",
     command |-> LoginCommand,
     attributes |-> << <<NameKey, login>>, <<PasswordKey, password>> >>,
     future_tag |-> FALSE]

system_resources ==
    [method |-> "system_resources", args |-> <<>>, kind |-> "oneshot",
     command |-> <<"/", "s", "y", "s", "t", "e", "m", "/", "r", "e", "s", "o", "u", "r", "c", "e", "/", "p", "r", "i", "n", "t">>,
     attributes |-> <<>>, future_tag |-> FALSE]

interfaces ==
    [method |-> "interfaces", args |-> <<>>, kind |-> "array",
     command |-> <<"/", "i", "n", "t", "e", "r", "f", "a", "c", "e", "/", "p", "r", "i", "n", "t">>,
     attributes |-> <<>>, future_tag |-> FALSE]

active_users ==
    [method |-> "active_users", args |-> <<>>, kind |-> "stream",
     command |-> <<"/", "u", "s", "e", "r", "/", "a", "c", "t", "i", "v", "e", "/", "l", "i", "s", "t", "e", "n">>,
     attributes |-> <<>>, future_tag |-> TRUE]

generic_array_call(command, attributes) ==
    [method |-> "generic_array_call", args |-> <<command, attributes>>, kind |-> "array",
     command |-> command, attributes |-> attributes, future_tag |-> FALSE]

CancelCommand == <<"/", "c", "a", "n", "c", "e", "l">>

CancelKey == <<"t", "a", "g">>

cancelNoTag(tag) ==
    [method |-> "cancel", args |-> <<tag>>, kind |-> "oneshot",
     command |-> CancelCommand, attributes |-> <<>>, future_tag |-> FALSE]

cancel(tag) ==
    [method |-> "cancel", args |-> <<tag>>, kind |-> "oneshot",
     command |-> CancelCommand,
     attributes |-> << <<CancelKey, ToString(tag)>> >>,
     future_tag |-> FALSE]

\* The typed calls that take no argument, one per sink variant.
TypedCalls == {system_resources, interfaces, active_users}

\* A generic call with a `.proplist` and a query word.
ProplistQuery ==
    generic_array_call(<<"/", "i", "n", "t", "e", "r", "f", "a", "c", "e", "/", "p", "r", "i", "n", "t">>,
        << <<<<".", "p", "r", "o", "p", "l", "i", "s", "t">>, <<"n", "a", "m", "e">>>>,
           <<<<"?", "d", "i", "s", "a", "b", "l", "e", "d">>, <<>> >> >>)

\* The calls of an authenticated facade that the model issues.
AuthenticatedCalls ==
    TypedCalls \cup {ProplistQuery} \cup {cancel(n) : n \in AllTags}

\* authenticate: the match on the awaited response of the `/login` call.
AuthenticateMatchOk(response) == [k |-> "Ok", v |-> 0]

AuthenticateMatch(response) ==
    CASE response.k \in {"Done", "Reply"} -> [k |-> "Ok", v |-> 0]
      [] response.k = "Trap"              -> [k |-> "Remote", v |-> response.v]
      [] OTHER                            -> [k |-> "panic", v |-> 0]

InitConnection ==
    /\ tag_map = <<>>
    /\ calls = [c \in Calls |->
                  [pc |-> "idle", kind |-> "none", tag |-> 0, method |-> "none",
                   args |-> <<>>, command |-> <<>>, attributes |-> <<>>,
                   future_tag |-> None]]
    /\ sinks = [c \in Calls |-> NewSink("none")]
    /\ wire = <<>>
    /\ reader = [pc |-> "read", cur |-> 0, cause |-> "none", err |-> "none"]
    /\ arrived = [t \in AllTags |-> 0]
    /\ pushed = [c \in Calls |-> <<>>]
    /\ doneLog = [c \in Calls |-> <<>>]
    /\ missed = {}
    /\ consumer = [c \in Calls |-> [result |-> None, yielded |-> <<>>, eos |-> FALSE]]
    /\ locks = [tag_map |-> Nobody, sink |-> [c \in Calls |-> Nobody]]
    /\ output = <<>>
    /\ buffer = <<>>
    /\ socket = <<>>

Init == InitConnection /\ arg = None /\ ret = None

\* do_call up to the release of the tag-map lock: box the sink, allocate a
\* tag, insert.  &mut self admits one do_call at a time; the lock excludes
\* the reader while it is between push_reply and done.
DoCallRegister(c, call, t) ==
    /\ calls[c].pc = "idle"
    /\ \A d \in Calls : d < c => calls[d].pc = "returned"
    /\ reader.pc # "done"
    /\ t \in NextTagChoices(tag_map)
    /\ tag_map' = TagMapInsert(tag_map, t, c)
    /\ calls' = [calls EXCEPT ![c] =
                    [pc |-> "registered", kind |-> call.kind, tag |-> t,
                     method |-> call.method, args |-> call.args,
                     command |-> call.command, attributes |-> call.attributes,
                     future_tag |-> IF call.future_tag THEN Some(t) ELSE None]]
    /\ sinks' = [sinks EXCEPT ![c] = NewSink(call.kind)]
    /\ UNCHANGED <<wire, reader, arrived, pushed, doneLog, missed, consumer, arg, ret,
                   locks, output, buffer, socket>>

\* do_call from send_command to the return of the consumer clone.
DoCallWrite(c) ==
    /\ calls[c].pc = "registered"
    /\ wire' = Append(wire, send_command(calls[c].command,
                                          DoCallAttributes(calls[c].attributes, calls[c].tag)))
    /\ calls' = [calls EXCEPT ![c].pc = "returned"]
    /\ UNCHANGED <<tag_map, sinks, reader, arrived, pushed, doneLog, missed, consumer, arg, ret,
                   locks, output, buffer, socket>>

\* do_call when write_all or flush fails: send_command returns the Err and
\* the unwrap() panics the calling task, which holds the facade.
DoCallWriteFail(c) ==
    /\ calls[c].pc = "registered"
    /\ calls' = [calls EXCEPT ![c].pc = "panicked"]
    /\ UNCHANGED <<tag_map, sinks, wire, reader, arrived, pushed, doneLog, missed, consumer, arg, ret,
                   locks, output, buffer, socket>>

----------------------------------------------------------------------------
\* Reader task

\* The tags of the `.tag=` words written to the socket.
WireTags == {t \in TagRange : \E i \in 1..Len(wire) : wire[i][2] = TagWord(t)}

\* The router answers the tags of the commands it has been sent; tag 0 is
\* never allocated and stands for a reply to a call that never existed.
ServerTags == WireTags \cup {0}

RECURSIVE SumUpTo(_, _)
SumUpTo(f, n) == IF n < 0 THEN 0 ELSE f[n] + SumUpTo(f, n - 1)

\* Number of tagged sentences read so far.
NumRead == SumUpTo(arrived, MaxTag)

\* The Err values of try_read_sentence: Error::EndOfStream on a read of zero
\* bytes, Error::Io on a failed ready() or try_read_buf().
ReadErrors == {"EndOfStream", "Io"}

\* event_loop when try_read_sentence returns Err: the `if let Ok(sentence)`
\* does not match and the loop goes round again, for ever once the peer has
\* closed the connection.
ReaderReadError(e) ==
    /\ reader.pc = "read"
    /\ reader' = [reader EXCEPT !.err = e]
    /\ UNCHANGED <<tag_map, calls, sinks, wire, arrived, pushed, doneLog, missed, consumer, arg, ret,
                   locks, output, buffer, socket>>

\* event_loop on a `!fatal` sentence.
ReaderFatal ==
    /\ reader.pc = "read"
    /\ reader.err = "none"
    /\ NumRead < MaxFrames
    /\ reader' = [pc |-> "exited", cur |-> 0, cause |-> "fatal", err |-> "none"]
    /\ UNCHANGED <<tag_map, calls, sinks, wire, arrived, pushed, doneLog, missed, consumer, arg, ret,
                   locks, output, buffer, socket>>

ReaderFrameMissExits(kind, t) ==
    /\ reader.pc = "read"
    /\ reader.err = "none"
    /\ NumRead < MaxFrames
    /\ LET f == [kind |-> kind, tag |-> t, seq |-> arrived[t] + 1]
           caller == Lookup(tag_map, t)
       IN
       /\ arrived' = [arrived EXCEPT ![t] = @ + 1]
       /\ IF caller = None
          THEN /\ missed' = missed \cup {t}
               /\ reader' = [pc |-> "exited", cur |-> 0, cause |-> "lookup", err |-> "none"]
               /\ UNCHANGED <<sinks, pushed>>
          ELSE LET c == caller[1]
                   p == push_reply(calls[c].kind, sinks[c], f)
               IN
               /\ sinks' = [sinks EXCEPT ![c] = p.sink]
               /\ pushed' = [pushed EXCEPT ![c] = Append(@, f)]
               /\ UNCHANGED missed
               /\ reader' = IF p.res # "Ok"
                            THEN [pc |-> "exited", cur |-> c, cause |-> "push_reply", err |-> "none"]
                            ELSE IF kind = "done"
                                 THEN [pc |-> "done", cur |-> c, cause |-> "none", err |-> "none"]
                                 ELSE reader
    /\ UNCHANGED <<tag_map, calls, wire, doneLog, consumer, arg, ret,
                   locks, output, buffer, socket>>

\* event_loop on a tagged `!re`, `!trap` or `!done` sentence: lookup and
\* push_reply; a `!done` leaves done() to be called under the same lock.
ReaderFrame(kind, t) ==
    /\ reader.pc = "read"
    /\ reader.err = "none"
    /\ NumRead < MaxFrames
    /\ LET f == [kind |-> kind, tag |-> t, seq |-> arrived[t] + 1]
           caller == Lookup(tag_map, t)
       IN
       /\ arrived' = [arrived EXCEPT ![t] = @ + 1]
       /\ IF caller = None
          THEN /\ missed' = missed \cup {t}
               /\ UNCHANGED <<sinks, pushed, reader>>
          ELSE LET c == caller[1]
                   p == push_reply(calls[c].kind, sinks[c], f)
               IN
               /\ sinks' = [sinks EXCEPT ![c] = p.sink]
               /\ pushed' = [pushed EXCEPT ![c] = Append(@, f)]
               /\ UNCHANGED missed
               /\ reader' = IF p.res # "Ok"
                            THEN [pc |-> "exited", cur |-> c, cause |-> "push_reply", err |-> "none"]
                            ELSE IF kind = "done"
                                 THEN [pc |-> "done", cur |-> c, cause |-> "none", err |-> "none"]
                                 ELSE reader
    /\ UNCHANGED <<tag_map, calls, wire, doneLog, consumer, arg, ret,
                   locks, output, buffer, socket>>

\* event_loop: caller.done() after the push of a `!done` sentence.
ReaderDone ==
    /\ reader.pc = "done"
    /\ LET c == reader.cur
           d == done(calls[c].kind, sinks[c])
       IN
       /\ sinks' = [sinks EXCEPT ![c] = d.sink]
       /\ doneLog' = [doneLog EXCEPT ![c] = Append(@, [res |-> d.res, set |-> d.set])]
       /\ reader' = IF d.res # "Ok"
                    THEN [pc |-> "exited", cur |-> c, cause |-> "done", err |-> "none"]
                    ELSE [pc |-> "read", cur |-> 0, cause |-> "none", err |-> "none"]
    /\ UNCHANGED <<tag_map, calls, wire, arrived, pushed, missed, consumer, arg, ret,
                   locks, output, buffer, socket>>

----------------------------------------------------------------------------
\* Consumers

\* A poll of the future returned by do_call (one-shot or array).
PollFuture(c) ==
    /\ calls[c].pc = "returned"
    /\ calls[c].kind \in {"oneshot", "array"}
    /\ consumer[c].result = None
    /\ LET p == IF calls[c].kind = "oneshot" THEN OneShotPoll(sinks[c])
                ELSE ArrayPoll(sinks[c])
       IN
       /\ sinks' = [sinks EXCEPT ![c] = p.sink]
       /\ consumer' = [consumer EXCEPT ![c].result = p.out]
    /\ UNCHANGED <<tag_map, calls, wire, reader, arrived, pushed, doneLog, missed, arg, ret,
                   locks, output, buffer, socket>>

\* A poll of the stream returned by do_call.
PollNext(c) ==
    /\ calls[c].pc = "returned"
    /\ calls[c].kind = "stream"
    /\ sinks[c].handles = 2
    /\ ~consumer[c].eos
    /\ LET p == poll_next(sinks[c]) IN
       /\ sinks' = [sinks EXCEPT ![c] = p.sink]
       /\ consumer' = [consumer EXCEPT
             ![c].yielded = IF p.out \in {Pending, ReadyNone} THEN @ ELSE Append(@, p.out),
             ![c].eos = (p.out = ReadyNone)]
    /\ UNCHANGED <<tag_map, calls, wire, reader, arrived, pushed, doneLog, missed, arg, ret,
                   locks, output, buffer, socket>>

Next ==
    \/ \E c \in Calls, call \in TypedCalls, t \in TagRange : DoCallRegister(c, call, t)
    \/ \E c \in Calls : DoCallWrite(c)
    \/ \E c \in Calls : DoCallWriteFail(c)
    \/ \E e \in ReadErrors : ReaderReadError(e)
    \/ ReaderFatal
    \/ \E kind \in TaggedKinds, t \in ServerTags : ReaderFrame(kind, t)
    \/ ReaderDone
    \/ \E c \in Calls : PollFuture(c)
    \/ \E c \in Calls : PollNext(c)

Spec == Init /\ [][Next]_vars

----------------------------------------------------------------------------
\* The typed API: a MikrotikAPI<Disconnected> offers authenticate only, which
\* consumes it; the methods of MikrotikAPI<Authenticated> need the value that
\* authenticate returns in its Ok.  Call 1 is the `/login` call.

\* Credentials handed to authenticate.
Logins == {<<"a", "d", "m", "i", "n">>, <<"u">>}

Passwords == {<<>>, <<"p", "w">>}

\* What authenticate returns, once the future of the login call resolved.
AuthenticateResult ==
    IF consumer[1].result = None THEN None
    ELSE Some(AuthenticateMatch(consumer[1].result[1]))

AuthenticatedAlways == TRUE

\* A MikrotikAPI<Authenticated> exists: authenticate returned Ok.
Authenticated ==
    AuthenticateResult # None /\ AuthenticateResult[1].k = "Ok"

\* authenticate up to the insertion of the login sink.
Authenticate(login, password, t) ==
    DoCallRegister(1, authenticate(login, password), t)

\* A method of the authenticated facade, up to the insertion of its sink.
\* The one-shot and array methods hold the &mut borrow of the facade until
\* their future has resolved.
AuthenticatedCall(c, call, t) ==
    /\ Authenticated
    /\ \A d \in Calls :
          (d < c /\ calls[d].kind \in {"oneshot", "array"}) => consumer[d].result # None
    /\ DoCallRegister(c, call, t)

NextApi ==
    \/ \E login \in Logins, password \in Passwords, t \in TagRange :
          Authenticate(login, password, t)
    \/ \E c \in Calls, call \in AuthenticatedCalls, t \in TagRange :
          AuthenticatedCall(c, call, t)
    \/ \E c \in Calls : DoCallWrite(c)
    \/ \E c \in Calls : DoCallWriteFail(c)
    \/ \E e \in ReadErrors : ReaderReadError(e)
    \/ ReaderFatal
    \/ \E kind \in TaggedKinds, t \in ServerTags : ReaderFrame(kind, t)
    \/ ReaderDone
    \/ \E c \in Calls : PollFuture(c)
    \/ \E c \in Calls : PollNext(c)

SpecApi == Init /\ [][NextApi]_vars

----------------------------------------------------------------------------
\* send_command's attribute framing as a function of one (key, value) pair.

\* Longest key and value drawn.
MaxWord == 2

Words(chars, n) == UNION {[1..m -> chars] : m \in 0..n}

KeyChars == {"?", ".", "=", "k"}

ValueChars == {"=", "v"}

InitSend ==
    /\ InitConnection
    /\ arg \in {Some(<<key, value>>) : key \in Words(KeyChars, MaxWord),
                                       value \in Words(ValueChars, MaxWord)}
    /\ ret = None

\* The body of send_command's loop for the drawn pair.
SendAttribute ==
    /\ arg # None
    /\ ret = None
    /\ ret' = Some(AttributeWord(arg[1][1], arg[1][2]))
    /\ UNCHANGED <<tag_map, calls, sinks, wire, reader, arrived, pushed, doneLog, missed,
                   consumer, arg,
                   locks, output, buffer, socket>>

NextSend == SendAttribute

SpecSend == InitSend /\ [][NextSend]_vars

----------------------------------------------------------------------------
\* Wire codec.  A byte is a number in 0..255, a buffer a sequence of bytes,
\* a cursor position the number of bytes consumed.  A u32 is the pair of its
\* 16-bit halves, [hi, lo]: the values of the five-byte form do not fit the
\* integers of the checker.

\* `as u32` of a u8.
U32(byte) == [hi |-> 0, lo |-> byte]

\* u32::from_be_bytes of a four-byte array.
from_be_bytes(data) == [hi |-> data[1] * 256 + data[2], lo |-> data[3] * 256 + data[4]]

\* The next n bytes under the cursor (n calls of next_byte), or None when the
\* buffer ends before them.
NextBytes(buf, pos, n) ==
    IF pos + n <= Len(buf) THEN Some(SubSeq(buf, pos + 1, pos + n)) ELSE None

\* The followers of the first byte, once they are known to be there.
ReadLenWide(first, rest) ==
    CASE Len(rest) = 1 -> from_be_bytes(<<0, 0, first % 64, rest[1]>>)
      [] Len(rest) = 2 -> from_be_bytes(<<0, first % 32, rest[1], rest[2]>>)
      [] Len(rest) = 3 -> from_be_bytes(<<first % 16, rest[1], rest[2], rest[3]>>)
      [] OTHER         -> from_be_bytes(rest)

\* The number of bytes that follow a first byte, by its leading bits
\* (first_byte >> 7 == 0b0, >> 6 == 0b10, >> 5 == 0b110, >> 4 == 0b1110,
\* == 0xF0); -1 for a byte that matches none of the tests.
ReadLenFollowers(first) ==
    CASE first \div 128 = 0 -> 0
      [] first \div 64 = 2  -> 1
      [] first \div 32 = 6  -> 2
      [] first \div 16 = 14 -> 3
      [] first = 240        -> 4
      [] OTHER              -> -1

ReadLenLittleEndian(buf, pos) ==
    IF NextBytes(buf, pos, 1) = None
    THEN [res |-> "Incomplete", val |-> U32(0), pos |-> pos]
    ELSE LET first == buf[pos + 1]
             n == ReadLenFollowers(first)
         IN
         IF n = -1 THEN [res |-> "unreachable", val |-> U32(0), pos |-> pos + 1]
         ELSE IF n = 0 THEN [res |-> "Ok", val |-> U32(first), pos |-> pos + 1]
         ELSE IF NextBytes(buf, pos + 1, n) = None
              THEN [res |-> "Incomplete", val |-> U32(0), pos |-> pos]
              ELSE [res |-> "Ok",
                    val |-> ReadLenWide(first,
                              [i \in 1..n |-> NextBytes(buf, pos + 1, n)[1][n + 1 - i]]),
                    pos |-> pos + 1 + n]

\* read_len: Ok(length), Err(Error::Incomplete) when a byte is missing, and
\* the unreachable!() panic for a first byte in 0xF1..0xFF.
read_len(buf, pos) ==
    IF NextBytes(buf, pos, 1) = None
    THEN [res |-> "Incomplete", val |-> U32(0), pos |-> pos]
    ELSE LET first == buf[pos + 1]
             n == ReadLenFollowers(first)
         IN
         IF n = -1 THEN [res |-> "unreachable", val |-> U32(0), pos |-> pos + 1]
         ELSE IF n = 0 THEN [res |-> "Ok", val |-> U32(first), pos |-> pos + 1]
         ELSE IF NextBytes(buf, pos + 1, n) = None
              THEN [res |-> "Incomplete", val |-> U32(0), pos |-> pos]
              ELSE [res |-> "Ok",
                    val |-> ReadLenWide(first, NextBytes(buf, pos + 1, n)[1]),
                    pos |-> pos + 1 + n]

\* len > (remaining as u32), for the buffers of the model, which are
\* shorter than 65536 bytes.
U32Greater(len, remaining) == len.hi > 0 \/ len.lo > remaining

ReadBytesShort(buf, pos, len) ==
    IF U32Greater(len, Len(buf) - pos)
    THEN [res |-> "Ok", val |-> SubSeq(buf, pos + 1, Len(buf)), pos |-> Len(buf)]
    ELSE [res |-> "Ok", val |-> SubSeq(buf, pos + 1, pos + len.lo), pos |-> pos + len.lo]

\* read_bytes: the len bytes under the cursor, or Err(Error::Incomplete).
read_bytes(buf, pos, len) ==
    IF U32Greater(len, Len(buf) - pos)
    THEN [res |-> "Incomplete", val |-> <<>>, pos |-> pos]
    ELSE [res |-> "Ok", val |-> SubSeq(buf, pos + 1, pos + len.lo), pos |-> pos + len.lo]

\* read_word: read_len, then read_bytes.
read_word(buf, pos) ==
    LET str_len == read_len(buf, pos) IN
    IF str_len.res # "Ok" THEN [res |-> str_len.res, val |-> <<>>, pos |-> pos]
    ELSE read_bytes(buf, str_len.pos, str_len.val)

RECURSIVE ReadSentenceLoop(_, _, _)
\* The loop of read_sentence: push words until the empty one, which is
\* pushed too.
ReadSentenceLoop(buf, pos, sentence) ==
    LET word == read_word(buf, pos) IN
    IF word.res # "Ok" THEN [res |-> word.res, val |-> <<>>, pos |-> pos]
    ELSE IF word.val = <<>>
         THEN [res |-> "Ok", val |-> Append(sentence, word.val), pos |-> word.pos]
         ELSE ReadSentenceLoop(buf, word.pos, Append(sentence, word.val))

\* read_sentence on a cursor at the start of the buffer.
read_sentence(buf) == ReadSentenceLoop(buf, 0, <<>>)

\* The target's byte orders, for to_ne_bytes.
Endians == {"little", "big"}

\* The bytes of `(len as uN) | pattern`, most significant first; the
\* pattern is given by its bytes, and in each branch of encode_len its bits
\* are clear in len, so that the or is a sum.
OrBytes(len, pattern) ==
    [i \in 1..Len(pattern) |->
        ((len \div (256 ^ (Len(pattern) - i))) % 256) + pattern[i]]

\* to_ne_bytes: the bytes in the order of the target.
to_ne_bytes(bytes, endian) ==
    IF endian = "big" THEN bytes ELSE [i \in 1..Len(bytes) |-> bytes[Len(bytes) + 1 - i]]

\* <[u8]>::copy_from_slice: panics unless both slices have the same length.
copy_from_slice(dst, src) ==
    IF Len(dst) = Len(src) THEN [res |-> "Ok", val |-> src]
    ELSE [res |-> "panic", val |-> dst]

\* encode_len, as a function of data.len(): res starts as an empty vector.
encode_len(len, endian) ==
    IF len <= 127 THEN [res |-> "Ok", val |-> <<len>>]
    ELSE IF len <= 16383
         THEN copy_from_slice(<<>>, to_ne_bytes(OrBytes(len, <<128, 0>>), endian))
    ELSE IF len <= 2097151
         THEN copy_from_slice(<<>>,
                  SubSeq(to_ne_bytes(OrBytes(len, <<0, 192, 0, 0>>), endian), 1, 3))
    ELSE IF len <= 268435455
         THEN copy_from_slice(<<>>, to_ne_bytes(OrBytes(len, <<224, 0, 0, 0>>), endian))
    ELSE LET c == copy_from_slice(<<>>, to_ne_bytes(OrBytes(len, <<0, 0, 0, 0>>), endian)) IN
         IF c.res = "Ok" THEN [res |-> "Ok", val |-> <<240>> \o c.val] ELSE c

\* encode_word: the length prefix, then the bytes of the word.
encode_word(word, endian) ==
    LET res == encode_len(Len(word), endian) IN
    IF res.res = "Ok" THEN [res |-> "Ok", val |-> res.val \o word] ELSE res

RECURSIVE EncodeWords(_, _)
\* The loop of encode_sentence.
EncodeWords(words, endian) ==
    IF words = <<>> THEN [res |-> "Ok", val |-> <<>>]
    ELSE LET w == encode_word(Head(words), endian)
             rest == EncodeWords(Tail(words), endian)
         IN
         IF w.res # "Ok" THEN w
         ELSE IF rest.res # "Ok" THEN rest
         ELSE [res |-> "Ok", val |-> w.val \o rest.val]

EncodeSentenceOpen(words, endian) == EncodeWords(words, endian)

\* encode_sentence: the encoded words, then the closing zero byte.
encode_sentence(words, endian) ==
    LET res == EncodeWords(words, endian) IN
    IF res.res = "Ok" THEN [res |-> "Ok", val |-> Append(res.val, 0)] ELSE res

----------------------------------------------------------------------------
\* read_len as a function of the buffer under the cursor.

\* Longest buffer drawn for read_len.
MaxPrefix == 5

\* First bytes on both sides of every pattern boundary.
FirstBytes == {0, 66, 127, 128, 129, 191, 192, 223, 224, 239, 240, 241, 255}

FollowBytes == {0, 1, 255}

LenBuffers ==
    {<<>>} \cup UNION {{<<first>> \o rest : first \in FirstBytes, rest \in [1..m -> FollowBytes]} :
                         m \in 0..(MaxPrefix - 1)}

InitLen ==
    /\ InitConnection
    /\ arg \in {Some(buf) : buf \in LenBuffers}
    /\ ret = None

ReadLen ==
    /\ arg # None
    /\ ret = None
    /\ ret' = Some(read_len(arg[1], 0))
    /\ UNCHANGED <<tag_map, calls, sinks, wire, reader, arrived, pushed, doneLog, missed,
                   consumer, arg,
                   locks, output, buffer, socket>>

NextLen == ReadLen

SpecLen == InitLen /\ [][NextLen]_vars

----------------------------------------------------------------------------
\* encode_word, and read_word on its output.

\* Words of every length up to this one are drawn.
MaxShortWord == 8

\* The lengths on both sides of the first two boundaries of the prefix table.
BoundaryLengths == {127, 128, 16383, 16384}

WordLengths == (0..MaxShortWord) \cup BoundaryLengths

\* The byte that fills a drawn word (words are text: `a`, `z`).
WordBytes == {97, 122}

InitWord ==
    /\ InitConnection
    /\ arg \in {Some([word |-> [i \in 1..n |-> b], endian |-> e]) :
                    n \in WordLengths, b \in WordBytes, e \in Endians}
    /\ ret = None

EncodeWord ==
    /\ arg # None
    /\ ret = None
    /\ ret' = Some([encoded |-> encode_word(arg[1].word, arg[1].endian), decoded |-> None])
    /\ UNCHANGED <<tag_map, calls, sinks, wire, reader, arrived, pushed, doneLog, missed,
                   consumer, arg,
                   locks, output, buffer, socket>>

\* read_word on the bytes encode_word returned.
DecodeWord ==
    /\ ret # None
    /\ ret[1].encoded.res = "Ok"
    /\ ret[1].decoded = None
    /\ ret' = Some([ret[1] EXCEPT !.decoded = Some(read_word(ret[1].encoded.val, 0))])
    /\ UNCHANGED <<tag_map, calls, sinks, wire, reader, arrived, pushed, doneLog, missed,
                   consumer, arg,
                   locks, output, buffer, socket>>

NextWord == EncodeWord \/ DecodeWord

SpecWord == InitWord /\ [][NextWord]_vars

----------------------------------------------------------------------------
\* encode_sentence, and read_sentence on its output.

\* Longest list of words drawn.
MaxWords == 2

\* The words of a drawn list: empty, short, and one byte too long for the
\* one-byte prefix.
ListWords == {<<>>, <<97>>, <<97, 98>>, [i \in 1..128 |-> 97]}

WordLists == UNION {[1..n -> ListWords] : n \in 0..MaxWords}

InitSentence ==
    /\ InitConnection
    /\ arg \in {Some([words |-> l, endian |-> e]) : l \in WordLists, e \in Endians}
    /\ ret = None

EncodeSentence ==
    /\ arg # None
    /\ ret = None
    /\ ret' = Some([encoded |-> encode_sentence(arg[1].words, arg[1].endian),
                     decoded |-> None])
    /\ UNCHANGED <<tag_map, calls, sinks, wire, reader, arrived, pushed, doneLog, missed,
                   consumer, arg,
                   locks, output, buffer, socket>>

\* read_sentence on the bytes encode_sentence returned.
ReadSentence ==
    /\ ret # None
    /\ ret[1].encoded.res = "Ok"
    /\ ret[1].decoded = None
    /\ ret' = Some([ret[1] EXCEPT !.decoded = Some(read_sentence(ret[1].encoded.val))])
    /\ UNCHANGED <<tag_map, calls, sinks, wire, reader, arrived, pushed, doneLog, missed,
                   consumer, arg,
                   locks, output, buffer, socket>>

NextSentence == EncodeSentence \/ ReadSentence

SpecSentence == InitSentence /\ [][NextSentence]_vars

----------------------------------------------------------------------------
\* read_sentence on the prefixes of an encoded sentence.

\* A length written in the form of 1 to 5 bytes, as read_len's tests
\* build them.
PrefixOfForm(len, form) ==
    CASE form = 1 -> <<len>>
      [] form = 2 -> <<128 + (len \div 256), len % 256>>
      [] form = 3 -> <<192 + (len \div 65536), (len \div 256) % 256, len % 256>>
      [] form = 4 -> <<224 + (len \div 16777216), (len \div 65536) % 256,
                       (len \div 256) % 256, len % 256>>
      [] OTHER    -> <<240, (len \div 16777216) % 256, (len \div 65536) % 256,
                       (len \div 256) % 256, len % 256>>

\* The non-empty words of an encoded sentence, in each of the five forms.
WireWords ==
    {PrefixOfForm(Len(w), form) \o w : w \in {<<97>>, <<97, 98>>}, form \in 1..5}

RECURSIVE Flatten(_)
Flatten(seqs) == IF seqs = <<>> THEN <<>> ELSE Head(seqs) \o Flatten(Tail(seqs))

\* Encoded sentences: encoded non-empty words, then the zero byte.
WireSentences ==
    {Append(Flatten(l), 0) : l \in UNION {[1..n -> WireWords] : n \in 0..MaxWords}}

InitPrefix ==
    /\ InitConnection
    /\ arg \in {Some(S) : S \in WireSentences}
    /\ ret = None

\* read_sentence on a buffer holding the first n bytes of the sentence.
ReadPrefix(n) ==
    /\ arg # None
    /\ ret = None
    /\ n \in 0..Len(arg[1])
    /\ ret' = Some([n |-> n, out |-> read_sentence(SubSeq(arg[1], 1, n))])
    /\ UNCHANGED <<tag_map, calls, sinks, wire, reader, arrived, pushed, doneLog, missed,
                   consumer, arg,
                   locks, output, buffer, socket>>

NextPrefix == \E n \in 0..Len(arg[1]) : ReadPrefix(n)

SpecPrefix == InitPrefix /\ [][NextPrefix]_vars

----------------------------------------------------------------------------
\* Sentence deserializer (src/api/de/mod.rs), driven by the derived
\* Deserialize of Response<T> and by TrapCategory (src/api/model/mod.rs),
\* with T = InterfaceChange.  A word is a sequence of one-character
\* strings, all of them ASCII.

DoneWord == <<"!", "d", "o", "n", "e">>

ReWord == <<"!", "r", "e">>

TrapWord == <<"!", "t", "r", "a", "p">>

FatalWord == <<"!", "f", "a", "t", "a", "l">>

\* The variant names of Response<T>.
DoneName == <<"D", "o", "n", "e">>

ReplyName == <<"R", "e", "p", "l", "y">>

TrapName == <<"T", "r", "a", "p">>

FatalName == <<"F", "a", "t", "a", "l">>

\* The field names of Response::Trap and of InterfaceChange.
CategoryField == <<"c", "a", "t", "e", "g", "o", "r", "y">>

MessageField == <<"m", "e", "s", "s", "a", "g", "e">>

IdField == <<".", "i", "d">>

\* DeserializerError: the error values of the deserializer.
DeserializerError ==
    {"MissingWord", "MissingKey", "MissingValue", "BadPrimitiveValue", "Custom"}

\* Result<T, DeserializerError>; a panic of the thread is the result "panic".
DeOk(v) == [res |-> "Ok", val |-> Some(v)]

DeErr(e) == [res |-> e, val |-> None]

DePanic == [res |-> "panic", val |-> None]

\* str::starts_with for a pattern string.
starts_with(word, pattern) ==
    /\ Len(word) >= Len(pattern)
    /\ SubSeq(word, 1, Len(pattern)) = pattern

DeReadWordNoSkip(sentence, cursor) ==
    IF cursor > Len(sentence)
    THEN [res |-> "MissingWord", word |-> <<>>, cursor |-> cursor]
    ELSE [res |-> "Ok", word |-> sentence[cursor], cursor |-> cursor + 1]

\* SentenceDeserializer::read_word: the next word of the cursor that does
\* not start with ".tag" (the recursion of the source, written as a search
\* for the first such position); cursor is the position of the next word.
de_read_word(sentence, cursor) ==
    LET rest == {i \in cursor..Len(sentence) : ~starts_with(sentence[i], TagKey)}
    IN  IF rest = {}
        THEN [res |-> "MissingWord", word |-> <<>>, cursor |-> Len(sentence) + 1]
        ELSE LET i == CHOOSE i \in rest : \A j \in rest : i <= j
             IN  [res |-> "Ok", word |-> sentence[i], cursor |-> i + 1]

\* str::split_once: the text before and after the first delimiter.
split_once(text, delimiter) ==
    LET at == {i \in 1..Len(text) : text[i] = delimiter}
    IN  IF at = {}
        THEN None
        ELSE LET i == CHOOSE i \in at : \A j \in at : i <= j
             IN  Some(<<SubSeq(text, 1, i - 1), SubSeq(text, i + 1, Len(text))>>)

\* SentenceDeserializer::word_part: text[1..] split at its first `=`.
word_part(current_word, hint) ==
    IF current_word = None THEN DeErr("MissingWord")
    ELSE IF current_word[1] = <<>> THEN DePanic
    ELSE LET parts == split_once(Tail(current_word[1]), "=")
         IN  IF parts = None
             THEN DeErr(IF hint = "Key" THEN "MissingKey" ELSE "MissingValue")
             ELSE DeOk(IF hint = "Key" THEN parts[1][1] ELSE parts[1][2])

DigitValue(char) ==
    IF \E d \in 1..10 : Digits[d] = char
    THEN (CHOOSE d \in 1..10 : Digits[d] = char) - 1
    ELSE -1

RECURSIVE ParseDigits(_, _, _)
\* The digit loop of <uN as FromStr>::from_str: -1 for a character that is
\* not a digit and for a value above max.
ParseDigits(text, acc, max) ==
    IF text = <<>> THEN acc
    ELSE LET d == DigitValue(Head(text))
         IN  IF d < 0 \/ acc * 10 + d > max
             THEN -1
             ELSE ParseDigits(Tail(text), acc * 10 + d, max)

\* <uN as FromStr>::from_str: one optional `+`, then at least one digit.
from_str(text, max) ==
    LET digits == IF text # <<>> /\ Head(text) = "+" THEN Tail(text) ELSE text
    IN  IF digits = <<>> THEN -1 ELSE ParseDigits(digits, 0, max)

\* SentenceDeserializer::parse_unsigned.
parse_unsigned(current_word, max) ==
    LET text == word_part(current_word, "Value")
    IN  IF text.res # "Ok" THEN text
        ELSE LET n == from_str(text.val[1], max)
             IN  IF n < 0 THEN DeErr("BadPrimitiveValue") ELSE DeOk(n)

deserialize_u8(current_word) == parse_unsigned(current_word, 255)

deserialize_string(current_word) == word_part(current_word, "Value")

deserialize_identifier(current_word) ==
    IF current_word = None THEN DeErr("MissingWord")
    ELSE IF current_word[1] = DoneWord THEN DeOk(DoneName)
    ELSE IF current_word[1] = ReWord THEN DeOk(ReplyName)
    ELSE IF current_word[1] = TrapWord THEN DeOk(TrapName)
    ELSE IF current_word[1] = FatalWord THEN DeOk(FatalName)
    ELSE word_part(current_word, "Key")

TrapCategoryLoose(current_word) ==
    LET category == deserialize_u8(current_word)
    IN  IF category.res # "Ok" THEN category
        ELSE IF category.val[1] \in 0..8 THEN category
        ELSE DeErr("Custom")

\* <TrapCategory as Deserialize>::deserialize: a u8 in 0..=7.
TrapCategoryDeserialize(current_word) ==
    LET category == deserialize_u8(current_word)
    IN  IF category.res # "Ok" THEN category
        ELSE IF category.val[1] \in 0..7 THEN category
        ELSE DeErr("Custom")

\* StructVisitor::next_key_seed: res "Ok" with key None at the closing
\* empty word, with the field identifier otherwise.
next_key_seed(sentence, cursor) ==
    LET next == de_read_word(sentence, cursor)
    IN  IF next.res # "Ok"
        THEN [res |-> next.res, key |-> None, current_word |-> None,
              cursor |-> next.cursor]
        ELSE IF next.word = <<>>
        THEN [res |-> "Ok", key |-> None, current_word |-> Some(next.word),
              cursor |-> next.cursor]
        ELSE LET key == deserialize_identifier(Some(next.word))
             IN  [res |-> key.res, key |-> key.val,
                  current_word |-> Some(next.word), cursor |-> next.cursor]

RECURSIVE TrapVisitMap(_, _, _, _)
\* visit_map of the derived visitor of Response::Trap over StructVisitor:
\* category and message hold the fields read so far.  A field met twice is
\* duplicate_field, the value of any other key is read as IgnoredAny
\* (deserialize_unit), and at the end a missing category is None and a
\* missing message is missing_field.
TrapVisitMap(sentence, cursor, category, message) ==
    LET key == next_key_seed(sentence, cursor)
    IN  IF key.res # "Ok" THEN DeErr(key.res)
        ELSE IF key.key = None
        THEN IF message = None
             THEN DeErr("Custom")
             ELSE DeOk(Trap([category |-> IF category = None THEN None
                                          ELSE category[1],
                             message |-> message[1]]))
        ELSE IF key.key[1] = CategoryField
        THEN IF category # None
             THEN DeErr("Custom")
             ELSE LET value == TrapCategoryDeserialize(key.current_word)
                  IN  IF value.res # "Ok" THEN value
                      ELSE TrapVisitMap(sentence, key.cursor, Some(value.val),
                                        message)
        ELSE IF key.key[1] = MessageField
        THEN IF message # None
             THEN DeErr("Custom")
             ELSE LET value == deserialize_string(key.current_word)
                  IN  IF value.res # "Ok" THEN value
                      ELSE TrapVisitMap(sentence, key.cursor, category,
                                        value.val)
        ELSE TrapVisitMap(sentence, key.cursor, category, message)

RECURSIVE InterfaceChangeVisitMap(_, _, _)
\* visit_map of the derived visitor of InterfaceChange over StructVisitor.
InterfaceChangeVisitMap(sentence, cursor, id) ==
    LET key == next_key_seed(sentence, cursor)
    IN  IF key.res # "Ok" THEN DeErr(key.res)
        ELSE IF key.key = None
        THEN IF id = None
             THEN DeErr("Custom")
             ELSE DeOk(Reply([id |-> id[1]]))
        ELSE IF key.key[1] = IdField
        THEN IF id # None
             THEN DeErr("Custom")
             ELSE LET value == deserialize_string(key.current_word)
                  IN  IF value.res # "Ok" THEN value
                      ELSE InterfaceChangeVisitMap(sentence, key.cursor,
                                                   value.val)
        ELSE InterfaceChangeVisitMap(sentence, key.cursor, id)

\* EnumVisitor::unit_variant: todo!().
unit_variant == DePanic

\* visit_enum of the derived visitor of Response<T> over EnumVisitor:
\* variant_seed names the variant, then the variant's content is read with
\* unit_variant, newtype_variant_seed or struct_variant.
VisitEnum(sentence, cursor, current_word) ==
    LET variant == deserialize_identifier(current_word)
    IN  IF variant.res # "Ok" THEN variant
        ELSE IF variant.val[1] = DoneName
        THEN (IF unit_variant.res = "Ok" THEN DeOk(Done) ELSE unit_variant)
        ELSE IF variant.val[1] = ReplyName
        THEN InterfaceChangeVisitMap(sentence, cursor, None)
        ELSE IF variant.val[1] = TrapName
        THEN TrapVisitMap(sentence, cursor, None, None)
        ELSE IF variant.val[1] = FatalName
        THEN (IF unit_variant.res = "Ok" THEN DeOk(Fatal) ELSE unit_variant)
        ELSE DeErr("Custom")

\* visit_enum of the same visitor over a string deserializer, which knows
\* unit variants only.
VisitEnumStr(variant) ==
    IF variant = DoneName THEN DeOk(Done)
    ELSE IF variant = FatalName THEN DeOk(Fatal)
    ELSE DeErr("Custom")

\* SentenceDeserializer::deserialize_enum.
deserialize_enum(sentence) ==
    LET next == de_read_word(sentence, 1)
    IN  IF next.res # "Ok" THEN DeErr(next.res)
        ELSE IF next.word = DoneWord THEN VisitEnumStr(DoneName)
        ELSE IF next.word \in {ReWord, TrapWord, FatalWord}
        THEN VisitEnum(sentence, next.cursor, Some(next.word))
        ELSE VisitEnumStr(next.word)

\* deserialize_sentence on the words of a sentence.
DeserializeSentence(sentence) == deserialize_enum(sentence)

----------------------------------------------------------------------------
\* Specification of the deserializer: one sentence is drawn, then
\* deserialized.

MaxAttributes == 3

IdValues == {<<>>, <<"*", "1">>, <<"a", "=", "b">>}

FatalMessage == <<"m", "s", "g">>

TrapMessage == <<"m">>

MarkerWords == {DoneWord, ReWord, TrapWord, FatalWord}

\* An attribute word of a reply: `=key=value`.
ReplyAttribute(key, value) == <<"=">> \o key \o <<"=">> \o value

FirstWords == MarkerWords \cup {FatalName}

AttributeWords ==
    {TagWord(1), TagKey}
    \cup {ReplyAttribute(IdField, v) : v \in IdValues}
    \cup {ReplyAttribute(CategoryField, ToString(n)) : n \in {1, 8}}
    \cup {ReplyAttribute(MessageField, TrapMessage)}
    \cup {ReplyAttribute(<<"k">>, <<"v">>)}
    \cup {<<"=", "k">>, FatalMessage, ReWord}

DeSentences ==
    {<<>>} \cup
    {<<first>> \o attributes \o << <<>> >> :
        first \in FirstWords,
        attributes \in UNION {[1..n -> AttributeWords] : n \in 0..MaxAttributes}}

InitDe ==
    /\ InitConnection
    /\ arg \in {Some(sentence) : sentence \in DeSentences}
    /\ ret = None

Deserialize ==
    /\ arg # None
    /\ ret = None
    /\ ret' = Some(DeserializeSentence(arg[1]))
    /\ UNCHANGED <<tag_map, calls, sinks, wire, reader, arrived, pushed, doneLog, missed,
                   consumer, arg,
                   locks, output, buffer, socket>>

NextDe == Deserialize

SpecDe == InitDe /\ [][NextDe]_vars

----------------------------------------------------------------------------
\* Specification of the trap category: a `!trap` sentence with a message,
\* with or without a tag word, with or without a category word on either
\* side of the message.

MaxCategory == 260

TrapSentences ==
    {[category |-> None,
      sentence |-> <<TrapWord>> \o tag
                   \o <<ReplyAttribute(MessageField, TrapMessage), <<>> >>] :
        tag \in {<<>>, <<TagWord(1)>>}}
    \cup
    {[category |-> Some(n),
      sentence |-> <<TrapWord>> \o tag
                   \o (IF first
                       THEN <<ReplyAttribute(CategoryField, ToString(n)),
                              ReplyAttribute(MessageField, TrapMessage)>>
                       ELSE <<ReplyAttribute(MessageField, TrapMessage),
                              ReplyAttribute(CategoryField, ToString(n))>>)
                   \o << <<>> >>] :
        tag \in {<<>>, <<TagWord(1)>>}, n \in 0..MaxCategory, first \in BOOLEAN}

InitTrap ==
    /\ InitConnection
    /\ arg \in {Some(t) : t \in TrapSentences}
    /\ ret = None

DeserializeTrap ==
    /\ arg # None
    /\ ret = None
    /\ ret' = Some(DeserializeSentence(arg[1].sentence))
    /\ UNCHANGED <<tag_map, calls, sinks, wire, reader, arrived, pushed, doneLog, missed,
                   consumer, arg,
                   locks, output, buffer, socket>>

NextTrap == DeserializeTrap

SpecTrap == InitTrap /\ [][NextTrap]_vars

----------------------------------------------------------------------------
\* event_loop: the classification of a sentence by its first two words
\* (src/api/listener.rs).

\* str::split_at: the two parts, or None where the source panics (mid past
\* the end of the text).
split_at(text, mid) ==
    IF mid > Len(text)
    THEN None
    ELSE Some(<<SubSeq(text, 1, mid), SubSeq(text, mid + 1, Len(text))>>)

\* The closure mapped over the classified frame: tag.split_at(5), then
\* id.parse::<u16>().unwrap().
FrameId(f_type, tag) ==
    LET parts == split_at(tag, 5)
    IN  IF parts = None
        THEN [res |-> "panic", f_type |-> f_type, id |-> 0]
        ELSE LET id == from_str(parts[1][2], 65535)
             IN  IF id < 0
                 THEN [res |-> "panic", f_type |-> f_type, id |-> 0]
                 ELSE [res |-> "Some", f_type |-> f_type, id |-> id]

\* event_loop: `tuple`, the frame type and tag of a sentence; "break" is
\* the exit on `!fatal`, "None" the unknown frame that is logged and
\* dropped, "panic" the unwinding of the reader task.
FrameTuple(sentence) ==
    IF Len(sentence) < 2
    THEN [res |-> "None", f_type |-> "none", id |-> 0]
    ELSE LET first == sentence[1]
             second == sentence[2]
         IN  IF first \in {ReWord, TrapWord} /\ starts_with(second, TagKey)
             THEN FrameId("Reply", second)
             ELSE IF first = DoneWord
             THEN FrameId("Done", second)
             ELSE IF first = FatalWord
             THEN [res |-> "break", f_type |-> "none", id |-> 0]
             ELSE [res |-> "None", f_type |-> "none", id |-> 0]

\* Specification of the classification: one sentence is drawn, then
\* classified.
FrameTags == {0, 1, 65535, 65536, 70000}

SecondWords ==
    {<<".", "t", "a", "g", "=">> \o ToString(n) : n \in FrameTags}
    \cup {TagKey, <<".", "t", "a", "g", "=">>, <<".", "t", "a", "g", "=", "x">>,
          ReplyAttribute(<<"r", "e", "t">>, <<"a", "b">>), FatalMessage}

FrameSentences ==
    {<<first, <<>> >> : first \in MarkerWords \cup {<<"!", "e", "m", "p", "t", "y">>}}
    \cup {<<first, second, <<>> >> :
            first \in MarkerWords \cup {<<"!", "e", "m", "p", "t", "y">>},
            second \in SecondWords}
    \cup {<< <<>> >>}

InitFrame ==
    /\ InitConnection
    /\ arg \in {Some(sentence) : sentence \in FrameSentences}
    /\ ret = None

ClassifyFrame ==
    /\ arg # None
    /\ ret = None
    /\ ret' = Some(FrameTuple(arg[1]))
    /\ UNCHANGED <<tag_map, calls, sinks, wire, reader, arrived, pushed, doneLog, missed,
                   consumer, arg,
                   locks, output, buffer, socket>>

NextFrame == ClassifyFrame

SpecFrame == InitFrame /\ [][NextFrame]_vars


----------------------------------------------------------------------------
\* Scheduling of the awaiting tasks

\* A poll that returns Pending wakes its own task (wake_by_ref), so a task
\* awaiting a one-shot or array future is polled again and again.
SpecLive == Init /\ [][Next]_vars /\ \A c \in Calls : WF_vars(PollFuture(c))

----------------------------------------------------------------------------
\* try_read_sentence on a byte stream that arrives in pieces.
\* `socket` holds the bytes the server sent that no read has returned yet,
\* `buffer` the BytesMut of event_loop, `arg` the sentences the server sent
\* and `ret` the sentences try_read_sentence returned.

\* Longest stream of sentences drawn.
MaxSentences == 2

\* The words drawn: a one-byte word with a one-byte length, a two-byte word
\* with a two-byte length.
StreamWords == {[word |-> <<97>>, form |-> 1], [word |-> <<97, 98>>, form |-> 2]}

\* A sentence as the server sends it, with the words read_sentence returns
\* for it.
ServerSentence(l) ==
    [words |-> [i \in 1..Len(l) |-> l[i].word] \o << <<>> >>,
     bytes |-> Append(Flatten([i \in 1..Len(l) |->
                        PrefixOfForm(Len(l[i].word), l[i].form) \o l[i].word]), 0)]

ServerSentences ==
    {ServerSentence(l) : l \in UNION {[1..n -> StreamWords] : n \in 0..MaxWords}}

ServerStreams == UNION {[1..n -> ServerSentences] : n \in 0..MaxSentences}

\* The bytes of the sentences of a stream from position `from` on.
StreamBytes(stream, from) ==
    Flatten([i \in 1..(Len(stream) + 1 - from) |-> stream[from + i - 1].bytes])

InitBuffer ==
    /\ tag_map = <<>>
    /\ calls = [c \in Calls |->
                  [pc |-> "idle", kind |-> "none", tag |-> 0, method |-> "none",
                   args |-> <<>>, command |-> <<>>, attributes |-> <<>>,
                   future_tag |-> None]]
    /\ sinks = [c \in Calls |-> NewSink("none")]
    /\ wire = <<>>
    /\ reader = [pc |-> "read", cur |-> 0, cause |-> "none", err |-> "none"]
    /\ arrived = [t \in AllTags |-> 0]
    /\ pushed = [c \in Calls |-> <<>>]
    /\ doneLog = [c \in Calls |-> <<>>]
    /\ missed = {}
    /\ consumer = [c \in Calls |-> [result |-> None, yielded |-> <<>>, eos |-> FALSE]]
    /\ locks = [tag_map |-> Nobody, sink |-> [c \in Calls |-> Nobody]]
    /\ output = <<>>
    /\ buffer = <<>>
    /\ arg \in ServerStreams
    /\ socket = StreamBytes(arg, 1)
    /\ ret = <<>>

AdvanceAll(buf, cnt) == <<>>

\* BytesMut::advance: drop the first cnt bytes.
advance(buf, cnt) == SubSeq(buf, cnt + 1, Len(buf))

\* try_read_sentence when read_sentence succeeds on the buffer: advance the
\* buffer by the cursor's position and return the sentence.
TryReadReturn ==
    /\ reader.err = "none"
    /\ LET parsed == read_sentence(buffer) IN
       /\ parsed.res = "Ok"
       /\ buffer' = advance(buffer, parsed.pos)
       /\ ret' = Append(ret, parsed.val)
    /\ UNCHANGED <<tag_map, calls, sinks, wire, reader, arrived, pushed, doneLog, missed,
                   consumer, arg, locks, output, socket>>

\* try_read_sentence when read_sentence fails on the buffer and the socket
\* is readable: try_read_buf appends the n bytes that have arrived.
TryReadBuf(n) ==
    /\ reader.err = "none"
    /\ read_sentence(buffer).res = "Incomplete"
    /\ n \in 1..Len(socket)
    /\ buffer' = buffer \o SubSeq(socket, 1, n)
    /\ socket' = SubSeq(socket, n + 1, Len(socket))
    /\ UNCHANGED <<tag_map, calls, sinks, wire, reader, arrived, pushed, doneLog, missed,
                   consumer, arg, ret, locks, output>>

\* try_read_buf returns 0 once the peer has closed and every byte was read:
\* Err(Error::EndOfStream).
TryReadEndOfStream ==
    /\ reader.err = "none"
    /\ read_sentence(buffer).res = "Incomplete"
    /\ socket = <<>>
    /\ reader' = [reader EXCEPT !.err = "EndOfStream"]
    /\ UNCHANGED <<tag_map, calls, sinks, wire, arrived, pushed, doneLog, missed,
                   consumer, arg, ret, locks, output, buffer, socket>>

NextBuffer ==
    \/ TryReadReturn
    \/ \E n \in 1..Len(socket) : TryReadBuf(n)
    \/ TryReadEndOfStream

SpecBuffer == InitBuffer /\ [][NextBuffer]_vars


----------------------------------------------------------------------------
\* A caller that drops the stream do_call returned to it.

\* Drop of the StreamingCall clone held by the caller: the Arc loses one
\* reference; the clone boxed into the tag table keeps the shared state.
DropConsumer(c) ==
    /\ calls[c].pc = "returned"
    /\ calls[c].kind = "stream"
    /\ sinks[c].handles = 2
    /\ sinks' = [sinks EXCEPT ![c].handles = 1]
    /\ UNCHANGED <<tag_map, calls, wire, reader, arrived, pushed, doneLog, missed, consumer,
                   arg, ret, locks, output, buffer, socket>>

NextDrop ==
    \/ Next
    \/ \E c \in Calls : DropConsumer(c)

SpecDrop == Init /\ [][NextDrop]_vars


----------------------------------------------------------------------------
\* cancel(N) on a live streaming call: call 1 is the stream, call 2 the
\* `/cancel` whose argument is the tag the stream was started with.

\* active_users(&mut tag).
Listen(t) == DoCallRegister(1, active_users, t)

\* cancel(tag), with the tag the stream call wrote to its out-parameter.
Cancel(t) ==
    /\ calls[1].pc = "returned"
    /\ DoCallRegister(2, cancel(calls[1].future_tag[1]), t)

\* What the router sends once it has read the `/cancel`: the terminal
\* `!trap` and `!done` of the stream, in that order, and the `!done` of the
\* cancel itself.
CancelReplies ==
    {[kind |-> "trap", call |-> 1], [kind |-> "done", call |-> 1], [kind |-> "done", call |-> 2]}

\* The frames of a log, without their sequence numbers.
KindsPushed(c) == {pushed[c][i].kind : i \in 1..Len(pushed[c])}

\* event_loop on the next of the router's replies to the cancel.
CancelReply(r) ==
    /\ calls[2].pc = "returned"
    /\ r.kind \notin KindsPushed(r.call)
    /\ (r.kind = "done" /\ r.call = 1) => "trap" \in KindsPushed(1)
    /\ ReaderFrame(r.kind, calls[r.call].tag)

NextCancel ==
    \/ \E t \in TagRange : Listen(t)
    \/ \E t \in TagRange : Cancel(t)
    \/ \E c \in Calls : DoCallWrite(c)
    \/ \E c \in Calls : DoCallWriteFail(c)
    \/ \E e \in ReadErrors : ReaderReadError(e)
    \/ \E r \in CancelReplies : CancelReply(r)
    \/ ReaderDone
    \/ \E c \in Calls : PollFuture(c)
    \/ \E c \in Calls : PollNext(c)

SpecCancel == Init /\ [][NextCancel]_vars


----------------------------------------------------------------------------
\* do_call step by step: the tag-map lock, the insert, and the bytes that
\* write_all hands to the write half of the socket, a few at a time.

Lowercase ==
    <<"a", "b", "c", "d", "e", "f", "g", "h", "i", "j", "k", "l", "m",
      "n", "o", "p", "q", "r", "s", "t", "u", "v", "w", "x", "y", "z">>

\* The ASCII codes of the other characters of the commands.
Punctuation(ch) ==
    CASE ch = "!" -> 33
      [] ch = "-" -> 45
      [] ch = "." -> 46
      [] ch = "/" -> 47
      [] ch = "=" -> 61
      [] ch = "?" -> 63

\* Position of a character in a list of characters.
IndexOf(ch, chars) == CHOOSE i \in 1..Len(chars) : chars[i] = ch

\* The byte of an ASCII character.
as_byte(ch) ==
    IF ch \in Range(Digits) THEN 47 + IndexOf(ch, Digits)
    ELSE IF ch \in Range(Lowercase) THEN 96 + IndexOf(ch, Lowercase)
    ELSE Punctuation(ch)

\* str::as_bytes for the text of the commands.
as_bytes(word) == [i \in 1..Len(word) |-> as_byte(word[i])]

\* send_command: the vector handed to encode_sentence, as bytes.
CommandWords(c) ==
    LET sentence == send_command(calls[c].command,
                                 DoCallAttributes(calls[c].attributes, calls[c].tag))
    IN  [i \in 1..(Len(sentence) - 1) |-> as_bytes(sentence[i])]

\* send_command: `bytes`.  No word of a command reaches 128 bytes, so the
\* byte order of the target plays no part.
CommandBytes(c) == encode_sentence(CommandWords(c), "little").val

\* The encoded sentence of no command of the model is longer.
MaxCommandBytes == 32

\* The number of bytes call c has handed to the socket.
Written(c) == Cardinality({i \in 1..Len(output) : output[i].call = c})

SharedBorrow(c) == TRUE

\* do_call takes &mut self: a call starts when the do_call futures of the
\* calls before it have returned.
ExclusiveBorrow(c) == \A d \in Calls : d < c => calls[d].pc = "returned"

MapGuardKept(l) == l

\* The MutexGuard of the tag map goes out of scope.
DropMapGuard(l) == [l EXCEPT !.tag_map = Nobody]

\* do_call: self.tag_map.lock().
DoCallLock(c) ==
    /\ calls[c].pc = "idle"
    /\ ExclusiveBorrow(c)
    /\ locks.tag_map = Nobody
    /\ locks' = [locks EXCEPT !.tag_map = c]
    /\ calls' = [calls EXCEPT ![c].pc = "locked"]
    /\ UNCHANGED <<tag_map, sinks, wire, reader, arrived, pushed, doneLog, missed, consumer,
                   arg, ret, output, buffer, socket>>

\* do_call: next_tag, insert, and the end of the `if let` block, up to the
\* first poll of write_all.
DoCallInsert(c, call, t) ==
    /\ calls[c].pc = "locked"
    /\ t \in NextTagChoices(tag_map)
    /\ tag_map' = TagMapInsert(tag_map, t, c)
    /\ calls' = [calls EXCEPT ![c] =
                    [pc |-> "write_all", kind |-> call.kind, tag |-> t,
                     method |-> call.method, args |-> call.args,
                     command |-> call.command, attributes |-> call.attributes,
                     future_tag |-> IF call.future_tag THEN Some(t) ELSE None]]
    /\ sinks' = [sinks EXCEPT ![c] = NewSink(call.kind)]
    /\ locks' = DropMapGuard(locks)
    /\ UNCHANGED <<wire, reader, arrived, pushed, doneLog, missed, consumer, arg, ret,
                   output, buffer, socket>>

\* Bytes handed to the socket by call c.
Mark(c, bytes) == [i \in 1..Len(bytes) |-> [call |-> c, byte |-> bytes[i]]]

\* send_command: self.output.write_all(&bytes), one poll_write that takes
\* the next n bytes.
WriteAll(c, n) ==
    /\ calls[c].pc = "write_all"
    /\ LET bytes == CommandBytes(c)
           written == Written(c)
       IN
       /\ n \in 1..(Len(bytes) - written)
       /\ output' = output \o Mark(c, SubSeq(bytes, written + 1, written + n))
       /\ calls' = [calls EXCEPT ![c].pc =
                       IF written + n = Len(bytes) THEN "flush" ELSE "write_all"]
    /\ UNCHANGED <<tag_map, sinks, wire, reader, arrived, pushed, doneLog, missed, consumer,
                   arg, ret, locks, buffer, socket>>

\* send_command: self.output.flush(), and the return of the consumer clone.
Flush(c) ==
    /\ calls[c].pc = "flush"
    /\ wire' = Append(wire, send_command(calls[c].command,
                                          DoCallAttributes(calls[c].attributes, calls[c].tag)))
    /\ calls' = [calls EXCEPT ![c].pc = "returned"]
    /\ UNCHANGED <<tag_map, sinks, reader, arrived, pushed, doneLog, missed, consumer,
                   arg, ret, locks, output, buffer, socket>>

\* write_all or flush returns Err: the unwrap() in do_call panics.
WriteFail(c) ==
    /\ calls[c].pc \in {"write_all", "flush"}
    /\ calls' = [calls EXCEPT ![c].pc = "panicked"]
    /\ UNCHANGED <<tag_map, sinks, wire, reader, arrived, pushed, doneLog, missed, consumer,
                   arg, ret, locks, output, buffer, socket>>

NextWriter ==
    \/ \E c \in Calls : DoCallLock(c)
    \/ \E c \in Calls, call \in TypedCalls, t \in TagRange : DoCallInsert(c, call, t)
    \/ \E c \in Calls, n \in 1..MaxCommandBytes : WriteAll(c, n)
    \/ \E c \in Calls : Flush(c)
    \/ \E c \in Calls : WriteFail(c)

SpecWriter == Init /\ [][NextWriter]_vars


----------------------------------------------------------------------------
\* The three kinds of task, step by step, with the mutexes they take.
\* `arg` holds the sentence try_read_sentence returned to event_loop.

\* The MutexGuard of the sink of call c goes out of scope.
DropSinkGuard(l, c) == [l EXCEPT !.sink[c] = Nobody]

\* event_loop: try_read_sentence(...).await returns a tagged sentence.
ReaderSentence(kind, t) ==
    /\ reader.pc = "read"
    /\ reader.err = "none"
    /\ NumRead < MaxFrames
    /\ arg' = Some([kind |-> kind, tag |-> t, seq |-> arrived[t] + 1])
    /\ arrived' = [arrived EXCEPT ![t] = @ + 1]
    /\ reader' = [reader EXCEPT !.pc = "sentence"]
    /\ UNCHANGED <<tag_map, calls, sinks, wire, pushed, doneLog, missed, consumer, ret,
                   locks, output, buffer, socket>>

\* event_loop: tags.lock().
ReaderLockMap ==
    /\ reader.pc = "sentence"
    /\ locks.tag_map = Nobody
    /\ locks' = [locks EXCEPT !.tag_map = ReaderTask]
    /\ reader' = [reader EXCEPT !.pc = "locked"]
    /\ UNCHANGED <<tag_map, calls, sinks, wire, arrived, pushed, doneLog, missed, consumer,
                   arg, ret, output, buffer, socket>>

\* event_loop: get_mut(&id) returns None; the guard is dropped at the end of
\* the block and the loop goes back to its read.
ReaderMiss ==
    /\ reader.pc = "locked"
    /\ Lookup(tag_map, arg[1].tag) = None
    /\ missed' = missed \cup {arg[1].tag}
    /\ locks' = DropMapGuard(locks)
    /\ reader' = [reader EXCEPT !.pc = "read"]
    /\ arg' = None
    /\ UNCHANGED <<tag_map, calls, sinks, wire, arrived, pushed, doneLog, consumer,
                   ret, output, buffer, socket>>

\* push_reply: self.inner.lock() on the sink found under the tag.
ReaderPushLock ==
    /\ reader.pc = "locked"
    /\ Lookup(tag_map, arg[1].tag) # None
    /\ LET c == Lookup(tag_map, arg[1].tag)[1] IN
       /\ locks.sink[c] = Nobody
       /\ locks' = [locks EXCEPT !.sink[c] = ReaderTask]
       /\ reader' = [reader EXCEPT !.pc = "push", !.cur = c]
    /\ UNCHANGED <<tag_map, calls, sinks, wire, arrived, pushed, doneLog, missed, consumer,
                   arg, ret, output, buffer, socket>>

\* push_reply under the sink's lock, and its return to event_loop: break on
\* Err, on to done() for a `!done`, back to the read otherwise.
ReaderPush ==
    /\ reader.pc = "push"
    /\ LET c == reader.cur
           p == push_reply(calls[c].kind, sinks[c], arg[1])
           stays == p.res = "Ok" /\ arg[1].kind = "done"
       IN
       /\ sinks' = [sinks EXCEPT ![c] = p.sink]
       /\ pushed' = [pushed EXCEPT ![c] = Append(@, arg[1])]
       /\ locks' = IF stays THEN DropSinkGuard(locks, c)
                   ELSE DropMapGuard(DropSinkGuard(locks, c))
       /\ reader' = IF p.res # "Ok"
                    THEN [pc |-> "exited", cur |-> c, cause |-> "push_reply", err |-> "none"]
                    ELSE IF stays THEN [reader EXCEPT !.pc = "done_call"]
                    ELSE [pc |-> "read", cur |-> 0, cause |-> "none", err |-> "none"]
       /\ arg' = IF stays THEN arg ELSE None
    /\ UNCHANGED <<tag_map, calls, wire, arrived, doneLog, missed, consumer, ret,
                   output, buffer, socket>>

\* done: self.inner.lock() on the sink, the tag-map guard still held.
ReaderDoneLock ==
    /\ reader.pc = "done_call"
    /\ locks.sink[reader.cur] = Nobody
    /\ locks' = [locks EXCEPT !.sink[reader.cur] = ReaderTask]
    /\ reader' = [reader EXCEPT !.pc = "done"]
    /\ UNCHANGED <<tag_map, calls, sinks, wire, arrived, pushed, doneLog, missed, consumer,
                   arg, ret, output, buffer, socket>>

\* done() under the sink's lock, and its return to event_loop: both guards
\* are dropped, whether the loop breaks or goes back to its read.
ReaderDoneCall ==
    /\ reader.pc = "done"
    /\ LET c == reader.cur
           d == done(calls[c].kind, sinks[c])
       IN
       /\ sinks' = [sinks EXCEPT ![c] = d.sink]
       /\ doneLog' = [doneLog EXCEPT ![c] = Append(@, [res |-> d.res, set |-> d.set])]
       /\ locks' = DropMapGuard(DropSinkGuard(locks, c))
       /\ reader' = IF d.res # "Ok"
                    THEN [pc |-> "exited", cur |-> c, cause |-> "done", err |-> "none"]
                    ELSE [pc |-> "read", cur |-> 0, cause |-> "none", err |-> "none"]
    /\ arg' = None
    /\ UNCHANGED <<tag_map, calls, wire, arrived, pushed, missed, consumer, ret,
                   output, buffer, socket>>

\* The consumer of call c can be polled.
Awaited(c) ==
    /\ calls[c].pc = "returned"
    /\ IF calls[c].kind = "stream" THEN ~consumer[c].eos ELSE consumer[c].result = None

\* poll / poll_next: self.inner.lock().
PollLock(c) ==
    /\ Awaited(c)
    /\ locks.sink[c] = Nobody
    /\ locks' = [locks EXCEPT !.sink[c] = c]
    /\ calls' = [calls EXCEPT ![c].pc = "polling"]
    /\ UNCHANGED <<tag_map, sinks, wire, reader, arrived, pushed, doneLog, missed, consumer,
                   arg, ret, output, buffer, socket>>

\* poll / poll_next under the sink's lock, and its return, Ready or
\* Pending: the guard is a local of the poll.
PollReturn(c) ==
    /\ calls[c].pc = "polling"
    /\ LET p == CASE calls[c].kind = "oneshot" -> OneShotPoll(sinks[c])
                  [] calls[c].kind = "array"   -> ArrayPoll(sinks[c])
                  [] OTHER                     -> poll_next(sinks[c])
       IN
       /\ sinks' = [sinks EXCEPT ![c] = p.sink]
       /\ consumer' =
             IF calls[c].kind = "stream"
             THEN [consumer EXCEPT
                     ![c].yielded = IF p.out \in {Pending, ReadyNone} THEN @
                                    ELSE Append(@, p.out),
                     ![c].eos = (p.out = ReadyNone)]
             ELSE [consumer EXCEPT ![c].result = p.out]
    /\ locks' = DropSinkGuard(locks, c)
    /\ calls' = [calls EXCEPT ![c].pc = "returned"]
    /\ UNCHANGED <<tag_map, wire, reader, arrived, pushed, doneLog, missed, arg, ret,
                   output, buffer, socket>>

NextTasks ==
    \/ \E c \in Calls : DoCallLock(c)
    \/ \E c \in Calls, call \in TypedCalls, t \in TagRange : DoCallInsert(c, call, t)
    \/ \E c \in Calls : WriteAll(c, Len(CommandBytes(c)))
    \/ \E c \in Calls : Flush(c)
    \/ \E c \in Calls : WriteFail(c)
    \/ \E kind \in TaggedKinds, t \in ServerTags : ReaderSentence(kind, t)
    \/ ReaderLockMap
    \/ ReaderMiss
    \/ ReaderPushLock
    \/ ReaderPush
    \/ ReaderDoneLock
    \/ ReaderDoneCall
    \/ \E c \in Calls : PollLock(c)
    \/ \E c \in Calls : PollReturn(c)

SpecTasks == Init /\ [][NextTasks]_vars


----------------------------------------------------------------------------
\* Properties

Registered(c) == calls[c].pc # "idle"

\* The values a sink was handed: the deserialized frames of its push log.
PushedValues(c) == [i \in 1..Len(pushed[c]) |-> deserialize_sentence(pushed[c][i]).val]

IsItem(r) == r.k \in {"Reply", "Trap"}

\* Position of the first `!done` frame in a push log (0 when there is none).
FirstDone(log) ==
    IF \E i \in 1..Len(log) : log[i].kind = "done"
    THEN CHOOSE i \in 1..Len(log) :
            log[i].kind = "done" /\ \A j \in 1..(i - 1) : log[j].kind # "done"
    ELSE 0

\* C1: every tagged frame read from the socket is handed to push_reply of
\* the sink registered under its tag and of no other sink, in arrival order:
\* the push log of a call is exactly the sequence of the frames read for
\* its tag, first to last.
Demultiplexing ==
    \A c \in Calls :
        IF Registered(c)
        THEN /\ Len(pushed[c]) = arrived[calls[c].tag]
             /\ \A i \in 1..Len(pushed[c]) :
                    pushed[c][i].tag = calls[c].tag /\ pushed[c][i].seq = i
        ELSE pushed[c] = <<>>

\* Two calls under distinct tags have both received frames, one of them
\* several.
DemultiplexingWitness ==
    \E c, d \in Calls :
        /\ c # d /\ Registered(c) /\ Registered(d)
        /\ calls[c].tag # calls[d].tag
        /\ Len(pushed[c]) >= 2 /\ Len(pushed[d]) >= 1

\* C2: the tags allocated by do_call are pairwise distinct, lie in the
\* sampled range 1..MaxTag, and every call's sink is in the tag table under
\* exactly one tag, its own.
TagUniqueness ==
    /\ \A c \in Calls : Registered(c) =>
          /\ calls[c].tag >= 1 /\ calls[c].tag <= MaxTag
          /\ calls[c].tag \in DOMAIN tag_map
          /\ {t \in DOMAIN tag_map : tag_map[t] = c} = {calls[c].tag}
    /\ \A c, d \in Calls :
          Registered(c) /\ Registered(d) /\ c # d => calls[c].tag # calls[d].tag

\* Every call of the model has been issued and has returned its consumer.
TagUniquenessWitness ==
    \A c \in Calls : calls[c].pc = "returned"

\* C3: with the reader back at its read, the tag table holds only tags of
\* calls whose `!done` has not been processed.
ReleaseOnCompletion ==
    reader.pc = "read" => \A t \in DOMAIN tag_map : doneLog[tag_map[t]] = <<>>

\* C4: the tag of every command written to the socket is in the tag table,
\* and no reply to a written command was looked up and missed.
RegisterBeforeWrite ==
    \A t \in WireTags : t \in DOMAIN tag_map /\ t \notin missed

\* A command has been written and a reply to it has reached its sink.
RegisterBeforeWriteWitness ==
    \E c \in Calls : calls[c].pc = "returned" /\ Len(pushed[c]) >= 1

\* C5: every `!re` or `!trap` pushed to a streaming sink is yielded by the
\* stream exactly once and in push order: the items yielded so far followed
\* by the items still queued are the items pushed.
StreamingDelivery ==
    \A c \in Calls : calls[c].kind = "stream" =>
        consumer[c].yielded \o SelectSeq(sinks[c].queue, IsItem)
            = SelectSeq(PushedValues(c), IsItem)

\* C6: the `!done` response of a streaming call is never yielded as an item,
\* and once it has been taken from the queue the consumer has been given
\* end-of-stream.
StreamingEndOfStream ==
    \A c \in Calls : calls[c].kind = "stream" =>
        /\ \A i \in 1..Len(consumer[c].yielded) : consumer[c].yielded[i] # Done
        /\ (FirstDone(pushed[c]) # 0 /\ sinks[c].queue = <<>>) => consumer[c].eos

\* C7: the first done() of every sink returns Ok, and the reader does not
\* exit on it.
FirstCompletionSucceeds ==
    \A c \in Calls : doneLog[c] # <<>> =>
        /\ doneLog[c][1].res = "Ok"
        /\ ~(reader.pc = "exited" /\ reader.cause = "done"
             /\ reader.cur = c /\ Len(doneLog[c]) = 1)

\* C8: every done() of a sink after its first reports an error and does not
\* set the completed value.
AtMostOneDone ==
    \A c \in Calls : \A i \in 2..Len(doneLog[c]) :
        doneLog[c][i].res # "Ok" /\ ~doneLog[c][i].set

\* C9: a resolved one-shot future resolved after a done() that returned Ok,
\* and its output is the first response pushed for its tag, whatever was
\* pushed after it.
OneShotResult ==
    \A c \in Calls : (calls[c].kind = "oneshot" /\ consumer[c].result # None) =>
        /\ doneLog[c] # <<>> /\ doneLog[c][1].res = "Ok"
        /\ consumer[c].result = Some(PushedValues(c)[1])

\* A one-shot call has resolved to a reply that was followed by its `!done`
\* and by a later frame.
OneShotResultWitness ==
    \E c \in Calls :
        /\ calls[c].kind = "oneshot" /\ consumer[c].result # None
        /\ consumer[c].result[1].k = "Reply"
        /\ Len(pushed[c]) >= 3

\* C10: a resolved array future resolved after a done() that returned Ok;
\* its output followed by Done is what was pushed up to the first `!done`,
\* and when that holds no `!trap` the fold of the output is Reply of the
\* payloads of the k `!re` frames in arrival order.
ArrayResult ==
    \A c \in Calls : (calls[c].kind = "array" /\ consumer[c].result # None) =>
        LET n == FirstDone(pushed[c])
            out == consumer[c].result[1]
        IN
        /\ doneLog[c] # <<>> /\ doneLog[c][1].res = "Ok"
        /\ n >= 1
        /\ Append(out, Done) = SubSeq(PushedValues(c), 1, n)
        /\ (\A i \in 1..(n - 1) : pushed[c][i].kind = "re") =>
              from_iter(out) = [k |-> "Reply", v |-> 0,
                                items |-> [i \in 1..(n - 1) |-> pushed[c][i].seq]]

\* An array call has resolved to two replies.
ArrayResultWitness ==
    \E c \in Calls :
        /\ calls[c].kind = "array" /\ consumer[c].result # None
        /\ from_iter(consumer[c].result[1]).items = <<1, 2>>


\* What the typed API method hands to its caller for a resolved call:
\* `.into()` of the output for a one-shot call, of its fold for an array call.
ApiResult(c) ==
    IF calls[c].kind = "array"
    THEN IntoResult(from_iter(consumer[c].result[1]))
    ELSE IntoResult(consumer[c].result[1])

\* Positions of the `!trap` frames pushed before the first `!done`.
TrapsBeforeDone(log) ==
    {i \in 1..Len(log) : log[i].kind = "trap" /\ (FirstDone(log) = 0 \/ i < FirstDone(log))}

\* C11: a resolved one-shot or array call for whose tag a `!trap` was pushed
\* before the `!done`, at whatever position, results in the remote error
\* carrying the message of that trap (the first one, if there are several).
TrapMapping ==
    \A c \in Calls :
        (calls[c].kind \in {"oneshot", "array"} /\ consumer[c].result # None
            /\ TrapsBeforeDone(pushed[c]) # {}) =>
        LET i == CHOOSE j \in TrapsBeforeDone(pushed[c]) :
                    \A l \in TrapsBeforeDone(pushed[c]) : j <= l
        IN  /\ ApiResult(c).k = "Remote"
            /\ ApiResult(c).v = pushed[c][i].seq

\* C12: a push that fails to deserialize does not stop the reader: the loop
\* is never left because of a push_reply error.
DeserializationIsCallScoped ==
    ~(reader.pc = "exited" /\ reader.cause = "push_reply")

\* A call that was issued and whose `!done` has not been processed.
InFlight(c) == calls[c].pc = "returned" /\ doneLog[c] = <<>>

\* C13: once the reader has left its loop on `!fatal`, every call in flight
\* has been handed the fatal response: its consumer has resolved with it, or
\* its sink holds it for the next poll.
FatalBroadcast ==
    reader.cause = "fatal" =>
        \A c \in Calls : InFlight(c) =>
            \/ consumer[c].result = Some(Fatal)
            \/ sinks[c].done = Some(Fatal)
            \/ \E i \in 1..Len(sinks[c].queue) : sinks[c].queue[i] = Fatal
            \/ \E i \in 1..Len(consumer[c].yielded) : consumer[c].yielded[i] = Fatal

\* C14: once a socket read has returned zero bytes or an I/O error, the
\* reader has left its loop.
EndOfStreamTerminates ==
    reader.err # "none" => reader.pc = "exited"

\* C15: a call whose command could not be written has its tag-table entry
\* removed again, and its consumer has completed.
WriteFailureRollback ==
    \A c \in Calls : calls[c].pc = "panicked" =>
        /\ calls[c].tag \notin DOMAIN tag_map
        /\ consumer[c].result # None

\* C16: authenticate writes `/login`, `.tag=<N>`, `=name=<login>`,
\* `=password=<password>`; when the router answers the login tag with `!done`
\* it returns Ok (the authenticated facade), and when the router answers with
\* `!trap` followed by `!done` it returns the remote error carrying the
\* trap's message.
LoginOutcome ==
    /\ calls[1].pc = "returned" =>
          /\ Len(wire[1]) = 5
          /\ wire[1][1] = <<"/", "l", "o", "g", "i", "n">>
          /\ wire[1][3] = <<"=", "n", "a", "m", "e", "=">> \o calls[1].args[1]
          /\ wire[1][4] = <<"=", "p", "a", "s", "s", "w", "o", "r", "d", "=">> \o calls[1].args[2]
    /\ (AuthenticateResult # None /\ pushed[1][1].kind = "done") =>
          AuthenticateResult[1].k = "Ok"
    /\ (AuthenticateResult # None /\ Len(pushed[1]) >= 2
            /\ pushed[1][1].kind = "trap" /\ pushed[1][2].kind = "done") =>
          /\ AuthenticateResult[1].k = "Remote"
          /\ AuthenticateResult[1].v = pushed[1][1].seq

\* authenticate has returned the error of a `!trap`, `!done` answer.
LoginOutcomeWitness ==
    /\ calls[1].method = "authenticate"
    /\ AuthenticateResult # None
    /\ Len(pushed[1]) >= 2
    /\ pushed[1][1].kind = "trap" /\ pushed[1][2].kind = "done"
    /\ AuthenticateResult[1].k = "Remote"

\* C17: every command on the wire other than `/login` was issued by a call
\* made after authenticate returned Ok, and after an authenticate that
\* returned an error (or that has not returned) no other call was issued.
StateGuard ==
    LET resolvedOk == /\ calls[1].method = "authenticate"
                      /\ AuthenticateResult # None
                      /\ AuthenticateResult[1].k = "Ok"
    IN
    /\ \A i \in 1..Len(wire) : wire[i][1] # LoginCommand => resolvedOk
    /\ \A c \in Calls : (Registered(c) /\ calls[c].method # "authenticate") => resolvedOk
    /\ ~resolvedOk => \A c \in Calls : c > 1 => calls[c].pc = "idle"

\* A command of the authenticated facade is on the wire.
StateGuardWitness ==
    \E i \in 1..Len(wire) : wire[i][1] # LoginCommand

\* C18: the sentence written for a call is its command, `.tag=<N>`, one
\* word per attribute of the caller in the caller's order, and the empty
\* word; N is the tag under which the call's sink is in the tag table, and
\* the value of the `tag` out-parameter of a streaming call.
OutboundSentence ==
    \A c \in Calls : calls[c].pc = "returned" =>
        LET sentence == wire[c]
            attributes == calls[c].attributes
            N == calls[c].tag
        IN
        /\ Len(sentence) = Len(attributes) + 3
        /\ sentence[1] = calls[c].command
        /\ sentence[2] = <<".", "t", "a", "g", "=">> \o ToString(N)
        /\ \A i \in 1..Len(attributes) :
              sentence[2 + i] = AttributeWord(attributes[i][1], attributes[i][2])
        /\ sentence[Len(sentence)] = <<>>
        /\ N \in DOMAIN tag_map /\ tag_map[N] = c
        /\ calls[c].kind = "stream" => calls[c].future_tag = Some(N)

\* The login sentence and the sentence of a later call with two attributes
\* have been written.
OutboundSentenceWitness ==
    \A c \in Calls : calls[c].pc = "returned" /\ Len(calls[c].attributes) = 2

\* C19: the word emitted for (key, value) is key alone when key starts with
\* `?` and value is empty, key=value when key starts with `?` and value is
\* not empty or when key starts with `.` or `=`, and =key=value otherwise.
AttributeFraming ==
    ret # None =>
        LET key == arg[1][1]
            value == arg[1][2]
            word == ret[1]
            first == IF key = <<>> THEN "" ELSE key[1]
        IN
        /\ (first = "?" /\ value = <<>>) => word = key
        /\ (first = "?" /\ value # <<>>) => word = key \o <<"=">> \o value
        /\ first \in {".", "="} => word = key \o <<"=">> \o value
        /\ first \notin {"?", ".", "="} => word = <<"=">> \o key \o <<"=">> \o value

\* A query key with an empty value has been framed.
AttributeFramingWitness ==
    /\ ret # None
    /\ StartsWith(arg[1][1], {"?"}) /\ arg[1][2] = <<>>

\* The issued cancel calls, with the tag N each was given.
CancelCalls ==
    {<<c, n>> \in Calls \X AllTags :
        Registered(c) /\ calls[c].method = "cancel" /\ calls[c].args = <<n>>}

\* What C20 says of the call c that is cancel(n).
CancelShape(c, n) ==
    LET M == calls[c].tag IN
    /\ calls[c].kind = "oneshot"
    /\ M \in DOMAIN tag_map /\ tag_map[M] = c
    /\ M # n
    /\ n \in DOMAIN tag_map => tag_map[n] # c
    /\ calls[c].pc = "returned" =>
          wire[c] = <<<<"/", "c", "a", "n", "c", "e", "l">>, <<".", "t", "a", "g", "=">> \o ToString(M),
                      <<"=", "t", "a", "g", "=">> \o ToString(n), <<>> >>

\* C20: cancel(N) registers a one-shot sink under a fresh tag M different
\* from N, writes [`/cancel`, `.tag=M`, `=tag=N`, ``], and leaves the
\* tag-table entry of N alone.
CancelSentence ==
    \A p \in CancelCalls : CancelShape(p[1], p[2])

\* C20, amended: the same, for an N that is the tag of an earlier call of
\* the connection, whose entry still maps to that call.
CancelSentenceOfIssuedTag ==
    \A p \in CancelCalls :
        \A d \in Calls :
            (d < p[1] /\ Registered(d) /\ calls[d].tag = p[2]) =>
                CancelShape(p[1], p[2]) /\ tag_map[p[2]] = d

\* The cancel of the tag of an earlier call has been written.
CancelSentenceWitness ==
    \E p \in CancelCalls :
        /\ calls[p[1]].pc = "returned"
        /\ \E d \in Calls : d < p[1] /\ Registered(d) /\ calls[d].tag = p[2]

\* The u32 written by at most four bytes, most significant first.
BigEndianValue(bytes) ==
    LET padded == [i \in 1..(4 - Len(bytes)) |-> 0] \o bytes IN
    [hi |-> padded[1] * 256 + padded[2], lo |-> padded[3] * 256 + padded[4]]

\* The pattern of a first byte: the number of bytes that follow it and the
\* value of its pattern bits (0xxxxxxx, 10xxxxxx, 110xxxxx, 1110xxxx, 0xF0).
PrefixForm(first) ==
    CASE first <= 127 -> [followers |-> 0, pattern |-> 0]
      [] first <= 191 -> [followers |-> 1, pattern |-> 128]
      [] first <= 223 -> [followers |-> 2, pattern |-> 192]
      [] first <= 239 -> [followers |-> 3, pattern |-> 224]
      [] OTHER        -> [followers |-> 4, pattern |-> 240]

\* C24: for a first byte of one of the five forms, read_len returns the low
\* bits of the first byte followed by the remaining bytes of the form, most
\* significant first, and Incomplete when the buffer holds fewer bytes than
\* the form requires (none at all included).
LengthDecoding ==
    ret # None =>
        LET buf == arg[1]
            out == ret[1]
        IN
        IF buf = <<>> THEN out.res = "Incomplete"
        ELSE LET form == PrefixForm(buf[1]) IN
             buf[1] <= 240 =>
                IF Len(buf) < 1 + form.followers THEN out.res = "Incomplete"
                ELSE /\ out.res = "Ok"
                     /\ out.val = BigEndianValue(
                            (IF form.followers = 4 THEN <<>> ELSE <<buf[1] - form.pattern>>)
                                \o SubSeq(buf, 2, 1 + form.followers))
                     /\ out.pos = 1 + form.followers

\* A three-byte form that encodes 256, which the two-byte form could hold.
LengthDecodingWitness ==
    /\ ret # None
    /\ arg[1] = <<192, 1, 0>>
    /\ ret[1].res = "Ok" /\ ret[1].val = [hi |-> 0, lo |-> 256]

\* C25: for a first byte in 0xF1..0xFF read_len returns an error value; it
\* does not panic.
InvalidLengthPrefix ==
    (ret # None /\ arg[1] # <<>> /\ arg[1][1] > 240) =>
        ret[1].res \notin {"Ok", "unreachable"}

\* The width of the shortest length prefix of the table that holds a length
\* (for the lengths below 2^31).
ShortestWidth(len) ==
    CASE len <= 127       -> 1
      [] len <= 16383     -> 2
      [] len <= 2097151   -> 3
      [] len <= 268435455 -> 4
      [] OTHER            -> 5

\* C21: encode_word returns the word behind a length prefix of the shortest
\* width of the table, and read_word on these bytes returns the word.
WordRoundTrip ==
    ret # None =>
        LET word == arg[1].word
            encoded == ret[1].encoded
            decoded == ret[1].decoded
        IN
        /\ encoded.res = "Ok"
        /\ Len(encoded.val) = ShortestWidth(Len(word)) + Len(word)
        /\ decoded # None => (decoded[1].res = "Ok" /\ decoded[1].val = word)

ShortWordList(words) ==
    \A i \in 1..Len(words) : Len(words[i]) >= 1 /\ Len(words[i]) <= 127

DecoderIncompleteness ==
    ret # None =>
        IF ret[1].n < Len(arg[1])
        THEN ret[1].out.res = "Incomplete"
        ELSE ret[1].out.res = "Ok" /\ ret[1].out.pos = Len(arg[1])

\* A sentence whose first word has a three-byte prefix was cut inside that
\* prefix.
DecoderIncompletenessWitness ==
    /\ ret # None
    /\ arg[1][1] = 192
    /\ ret[1].n = 2
    /\ ret[1].out.res = "Incomplete"

\* The result r is the value: compared kind first, since the payloads of
\* different kinds are not comparable.
IsValue(r, value) ==
    /\ r.res = "Ok"
    /\ r.val[1].k = value.k
    /\ r.val[1].v = value.v

SameResult(a, b) == a.res = b.res /\ (a.res = "Ok" => IsValue(a, b.val[1]))

\* C26: deserialize_sentence maps `!done` to Done, `!re` to Reply(T),
\* `!trap` to Trap{category, message} and `!fatal` followed by a message
\* word to Fatal, and for each of the four kinds it returns a value or an
\* error value, never a panic.
ReplyKindDispatch ==
    (ret # None /\ arg[1] # <<>> /\ arg[1][1] \in MarkerWords) =>
        LET first == arg[1][1]
            r == ret[1]
        IN  /\ r.res \in {"Ok"} \cup DeserializerError
            /\ first = DoneWord => IsValue(r, Done)
            /\ (first = ReWord /\ r.res = "Ok") => r.val[1].k = "Reply"
            /\ (first = TrapWord /\ r.res = "Ok") => r.val[1].k = "Trap"
            /\ (first = FatalWord /\ arg[1][2] = FatalMessage) => IsValue(r, Fatal)

\* The sentence without the words starting with `.tag` that follow its first
\* word.
StripTags(sentence) ==
    IF sentence = <<>> THEN <<>>
    ELSE LET NoTag(word) == ~starts_with(word, TagKey)
         IN  <<Head(sentence)>> \o SelectSeq(Tail(sentence), NoTag)

\* C27: deserialize_sentence returns for a sentence what it returns for the
\* same sentence with every word starting with `.tag` after the reply-kind
\* marker removed.
TagTransparency ==
    ret # None => SameResult(ret[1], DeserializeSentence(StripTags(arg[1])))

\* A sentence with a tag word between two attribute words was deserialized
\* into a reply.
TagTransparencyWitness ==
    /\ ret # None
    /\ Len(arg[1]) >= 5
    /\ arg[1][3] = TagWord(1)
    /\ arg[1][2] # TagWord(1)
    /\ arg[1][4] = ReplyAttribute(IdField, <<"*", "1">>)
    /\ IsValue(ret[1], Reply([id |-> <<"*", "1">>]))

\* A word with no `=` after its first character (tag words are routing
\* annotations, not attributes).
Malformed(word) ==
    /\ word # <<>>
    /\ ~starts_with(word, TagKey)
    /\ \A i \in 2..Len(word) : word[i] # "="

\* C28: an attribute word `=k=v` is presented as key k and value v, also
\* when v is empty or contains `=` (seen on the `.id` field of a reply), and
\* a `!re` or `!trap` sentence holding an attribute word with no `=` after
\* its first character deserializes to an error value.
AttributeSplit ==
    (ret # None /\ arg[1] # <<>> /\ arg[1][1] \in {ReWord, TrapWord}) =>
        /\ (\E i \in 2..Len(arg[1]) : Malformed(arg[1][i]))
                => ret[1].res \in DeserializerError
        /\ \A v \in IdValues :
                arg[1] = <<ReWord, ReplyAttribute(IdField, v), <<>> >>
                    => IsValue(ret[1], Reply([id |-> v]))

\* C29: a `!trap` sentence with `=category=n` deserializes to the category
\* numbered n when n is in 0..7 and to an error value for every other n;
\* without a category word it deserializes to a Trap with no category.
TrapCategoryRange ==
    ret # None =>
        LET n == arg[1].category
        IN  IF n = None
            THEN IsValue(ret[1], Trap([category |-> None, message |-> TrapMessage]))
            ELSE IF n[1] <= 7
            THEN IsValue(ret[1], Trap([category |-> n, message |-> TrapMessage]))
            ELSE ret[1].res \in DeserializerError

\* A trap of the highest category was deserialized.
TrapCategoryRangeWitness ==
    /\ ret # None
    /\ arg[1].category = Some(7)
    /\ ret[1].res = "Ok"
    /\ ret[1].val[1].v.category = Some(7)

\* C30: when the reader processes a tagged `!re`, `!trap` or `!done` frame
\* whose tag is not in the tag table, the tag table and every sink are left
\* unchanged and the reader stays in its loop, ready for the next sentence.
UnknownTag ==
    [][\A t \in AllTags :
          (arrived'[t] # arrived[t] /\ t \notin DOMAIN tag_map)
              => /\ tag_map' = tag_map
                 /\ sinks' = sinks
                 /\ pushed' = pushed
                 /\ reader' = reader
                 /\ reader'.pc = "read"]_vars

\* A frame of an unknown tag was dropped, a frame of a known tag was
\* delivered, and the reader is in its loop.
UnknownTagWitness ==
    /\ missed # {}
    /\ \E c \in Calls : pushed[c] # <<>>
    /\ reader.pc = "read"
    /\ reader.err = "none"

\* A `.tag=<digits>` word with digits in the 16-bit range.
IsTagWord(word) ==
    /\ Len(word) > 5
    /\ SubSeq(word, 1, 5) = <<".", "t", "a", "g", "=">>
    /\ \A i \in 6..Len(word) : DigitValue(word[i]) >= 0
    /\ ParseDigits(SubSeq(word, 6, Len(word)), 0, 65535) >= 0

\* C31: a sentence that is not `!fatal` and is not a `!re`, `!trap` or
\* `!done` followed by a `.tag=<digits>` word in the 16-bit range is dropped
\* by the reader: it is classified as no frame, touching no sink and no
\* table entry, and the reader neither exits nor panics.
UnclassifiableDiscarded ==
    (/\ ret # None
     /\ arg[1][1] # FatalWord
     /\ ~(/\ Len(arg[1]) >= 2
          /\ arg[1][1] \in {ReWord, TrapWord, DoneWord}
          /\ IsTagWord(arg[1][2])))
        => ret[1].res = "None"

\* C35: a resolved one-shot call whose tag received only `!done` frames
\* hands its caller an Ok or a remote error: the conversion of its output
\* does not reach the unreachable branch.
BareDoneResult ==
    \A c \in Calls :
        (/\ calls[c].kind = "oneshot" /\ consumer[c].result # None
         /\ \A i \in 1..Len(pushed[c]) : pushed[c][i].kind = "done") =>
        ApiResult(c).k \in {"Ok", "Remote"}

\* The calls registered in the tag table whose `!done` has not been processed.
CallsInFlight == {c \in Calls : calls[c].pc # "idle" /\ doneLog[c] = <<>>}

\* C36: while fewer calls are in flight than there are tags, next_tag has a
\* tag to return: some tag of the range is not a key of the table, whatever
\* number of calls completed before.
TagAllocationTerminates ==
    Cardinality(CallsInFlight) < MaxTag => NextTagChoices(tag_map) # {}

\* done() has returned Ok on the sink of call c, whose consumer was handed out.
DoneSucceeded(c) ==
    /\ calls[c].pc = "returned" /\ calls[c].kind \in {"oneshot", "array"}
    /\ doneLog[c] # <<>> /\ doneLog[c][1].res = "Ok"

\* C37: once done() has succeeded on the sink of a one-shot or array call,
\* its future resolves on a later poll, and the poll that resolves it takes
\* the completed value out of the cell, so that no other poll is handed it.
ConsumerLiveness ==
    /\ \A c \in Calls : DoneSucceeded(c) ~> (consumer[c].result # None)
    /\ [][\A c \in Calls :
            (consumer[c].result = None /\ consumer'[c].result # None) =>
                /\ DoneSucceeded(c)
                /\ sinks[c].done # None
                /\ sinks'[c].done = None]_vars

\* A one-shot and an array future have both resolved after their `!done`.
ConsumerLivenessWitness ==
    /\ \E c \in Calls : calls[c].kind = "oneshot" /\ DoneSucceeded(c) /\ consumer[c].result # None
    /\ \E c \in Calls : calls[c].kind = "array" /\ DoneSucceeded(c) /\ consumer[c].result # None

\* C38: the sentences returned so far are the first sentences the server
\* sent, in order and once each, and the bytes of all the others are the
\* buffer followed by what the socket still holds: a return removed exactly
\* the bytes of the returned sentence, a failed parse removed nothing.  When
\* the stream has ended, every sentence was returned.
BufferConsumption ==
    /\ Len(ret) <= Len(arg)
    /\ \A i \in 1..Len(ret) : ret[i] = arg[i].words
    /\ buffer \o socket = StreamBytes(arg, Len(ret) + 1)
    /\ reader.err = "EndOfStream" => (Len(ret) = Len(arg) /\ buffer = <<>>)

\* The first of two sentences was returned while the buffer held the first
\* bytes of the second, the rest of which has not arrived.
BufferConsumptionWitness ==
    /\ Len(arg) = 2 /\ Len(ret) = 1
    /\ buffer # <<>> /\ socket # <<>>
    /\ Len(buffer) + Len(socket) = Len(arg[2].bytes)

\* The consumer of streaming call c has been dropped.
Dropped(c) == calls[c].kind = "stream" /\ sinks[c].handles = 1

\* C39: after the consumer of a streaming call was dropped, its tag stays in
\* the tag table, and every frame read for the tag that deserializes is
\* pushed: the response is queued, push_reply returns Ok and the reader does
\* not leave its loop on the push.
DroppedConsumer ==
    /\ [](\A c \in Calls : Dropped(c) => Lookup(tag_map, calls[c].tag) = Some(c))
    /\ [][\A c \in Calls :
            (/\ Dropped(c) /\ Len(pushed'[c]) > Len(pushed[c])
             /\ deserialize_sentence(pushed'[c][Len(pushed'[c])]).ok) =>
                /\ sinks'[c].queue =
                       Append(sinks[c].queue,
                              deserialize_sentence(pushed'[c][Len(pushed'[c])]).val)
                /\ reader'.pc # "exited"
                /\ Lookup(tag_map', calls[c].tag) = Some(c)]_vars

\* A dropped stream whose sink holds every frame of the run, a `!re` and a
\* `!trap` among them, with the reader back at its read.
DroppedConsumerWitness ==
    \E c \in Calls :
        /\ Dropped(c) /\ reader.pc = "read"
        /\ consumer[c].yielded = <<>>
        /\ Len(sinks[c].queue) = MaxFrames
        /\ \E i, j \in 1..MaxFrames :
              sinks[c].queue[i].k = "Reply" /\ sinks[c].queue[j].k = "Trap"

\* C34: the future of a cancel that was written can always still resolve:
\* it has resolved, or its completed value waits in the cell for the next
\* poll, or the reader is still in its loop to process the `!done` of the
\* cancel, in whatever order the router's three replies are read.
CancelCompletes ==
    (calls[2].method = "cancel" /\ calls[2].pc = "returned") =>
        \/ consumer[2].result # None
        \/ sinks[2].done # None
        \/ reader.pc # "exited"

\* The calls whose command is being written or was written.
Writers == {c \in Calls : calls[c].pc \in {"write_all", "flush", "returned", "panicked"}}

\* The orders in which the writers can have come.
WriterOrders ==
    {o \in [1..Cardinality(Writers) -> Writers] :
        \A i, j \in 1..Cardinality(Writers) : o[i] = o[j] => i = j}

IsPrefix(s, t) == Len(s) <= Len(t) /\ s = SubSeq(t, 1, Len(s))

\* The bytes on the wire.
OutputBytes == [i \in 1..Len(output) |-> output[i].byte]

\* Where on the wire the first byte of call c stands.
FirstByte(c) == CHOOSE i \in 1..Len(output) :
                    output[i].call = c /\ \A j \in 1..(i - 1) : output[j].call # c

\* C33: the bytes on the wire are the encoded sentences of the calls, one
\* whole sentence after the other, the last one as far as it has been
\* written; and from the first byte of a call whose write_all has returned,
\* read_sentence reads exactly that call's sentence.
WriterExclusion ==
    /\ \E o \in WriterOrders :
          IsPrefix(OutputBytes, Flatten([i \in 1..Len(o) |-> CommandBytes(o[i])]))
    /\ \A c \in Calls : calls[c].pc \in {"flush", "returned"} =>
          LET parsed == read_sentence(SubSeq(OutputBytes, FirstByte(c), Len(output))) IN
          /\ parsed.res = "Ok"
          /\ parsed.val = Append(CommandWords(c), <<>>)
          /\ parsed.pos = Len(CommandBytes(c))

\* The first call has returned and the second has written a part of its
\* sentence.
WriterExclusionWitness ==
    /\ calls[1].pc = "returned"
    /\ calls[2].pc = "write_all"
    /\ Written(2) > 0

\* The task holds the tag-map mutex or a sink mutex.
Holds(task) == locks.tag_map = task \/ \E c \in Calls : locks.sink[c] = task

\* C32: the reader suspended on its socket read holds no mutex, and a caller
\* suspended on write_all, on flush or on its consumer handle holds none.
NoLockAcrossSuspension ==
    /\ reader.pc = "read" => ~Holds(ReaderTask)
    /\ \A c \in Calls : calls[c].pc \in {"write_all", "flush", "returned"} => ~Holds(c)

\* All three tasks are suspended after each has been through its locks: the
\* reader has pushed a frame to call 1 and is back at its read, call 1 waits
\* for its consumer and call 2 for its flush.
NoLockAcrossSuspensionWitness ==
    /\ reader.pc = "read" /\ pushed[1] # <<>>
    /\ calls[1].pc = "returned" /\ Awaited(1)
    /\ calls[2].pc = "flush"

====
